---- MODULE Spec2Model ----
(***************************************************************************)
(* Deployment orchestrator of the edge backend: the Registry (D1 tables),  *)
(* the customer's remote account (key-value namespaces, workers, routes)   *)
(* and the request handlers that drive both.  Every handler is split at    *)
(* the awaits that touch the Registry or the remote platform, so requests  *)
(* served concurrently interleave exactly where the code yields.           *)
(*                                                                         *)
(* Failure model: a remote call may be rejected at any time and must be    *)
(* rejected when the resource it names does not exist; a successful        *)
(* create may come back without an id (the code reads `result.id`          *)
(* unchecked).  Registry statements fail only by violating a constraint    *)
(* of the schema.  ENCRYPTION_KEY is fixed after initialisation.           *)
(***************************************************************************)
EXTENDS Integers, Sequences, FiniteSets, TLC

\* SQL NULL / JavaScript undefined.
NULL == 0

\* ---------------------------------------------------------------- bounds
\* Provisioning attempts that may reach the platform in one behaviour.
MaxAttempts == 2
\* Variant create requests that may reach the Registry in one behaviour.
MaxWrites == 2
\* Analytics callbacks that may reach the Registry in one behaviour.
MaxEvents == 2
\* Requests to POST /api/cloudflare/connect in one behaviour.
MaxCalls == 6
\* Half hours that may pass in one behaviour.
MaxTicks == 2
\* Requests behind standardRateLimit in one behaviour.
MaxStandardCalls == 4

Procs    == {1, 2}        \* requests in flight at the same time
Users    == {1, 2}        \* authenticated callers (JWT userId)
Customers == {1}          \* the callers that connect an account in Spec
Tokens   == {1, 2}        \* well-formed platform API tokens
Sites    == {1}           \* site identifiers
Zones    == {1}           \* customer domains (zoneId, zoneName)
Paths    == {1, 2}        \* url paths
Contents == {1, 2}        \* variant bodies

VARIABLES
  users,        \* table users: set of [id, email]
  connections,  \* table cloudflare_connections: set of rows
  connSeq,      \* AUTOINCREMENT of cloudflare_connections
  deployments,  \* table deployments: sequence of rows, index = id
  api_keys,     \* table api_keys: sequence of rows, index = id
  variants,     \* table variants: set of rows
  variantSeq,   \* AUTOINCREMENT of variants
  ai_requests,  \* table ai_requests: sequence of rows, index = id
  kvNamespaces, \* remote: ids of the key-value namespaces that exist
  kvData,       \* remote: namespace id -> (key -> value or NULL)
  workers,      \* remote: site of the worker name -> the script's binding and secrets
  routes,       \* remote: set of [id, zone, script]
  attempts,     \* provisioning attempts started so far
  writes,       \* variant create requests accepted so far
  pc,           \* per request slot: position in its handler
  loc,          \* per request slot: the handler's local variables
  limiter,      \* the rate limiter: KV_SESSIONS, the clock, the requests let through
  vault,        \* encryptToken / decryptToken: the calls made and their results
  edge          \* the worker deployed to the customer: a request and its handling

vars == <<users, connections, connSeq, deployments, api_keys, variants,
          variantSeq, ai_requests, kvNamespaces, kvData, workers, routes,
          attempts, writes, pc, loc, limiter, vault, edge>>

registry == <<users, connections, connSeq, deployments, api_keys, variants, variantSeq,
              ai_requests>>
remote   == <<kvNamespaces, kvData, workers, routes>>
counters == <<attempts, writes>>
\* What the deployment handlers never touch.
outside  == <<limiter, vault, edge>>

\* ------------------------------------------------------------- pure code
\* keyData.slice(0, 32): the bytes of a key that are used.
KeyBytes == 32
\* crypto.getRandomValues(new Uint8Array(12)); combined.slice(0, 12).
IvBytes == 12
\* The raw key lengths importKey takes for AES-GCM.
AesKeyLengths == {16, 24, 32}

\* Text is kept as what it decodes to: a base64 text is the bytes it stands
\* for, with or without white space around it.
arrayBufferToBase64(buffer) ==
  [padded |-> FALSE, base64 |-> buffer]

trim(text) ==
  [text EXCEPT !.padded = FALSE]

base64ToArrayBuffer(text) ==
  text.base64

\* Text is a sequence of UTF-16 code units, as a JavaScript string is.
IsHighSurrogate(unit) ==
  unit >= 55296 /\ unit <= 56319

IsLowSurrogate(unit) ==
  unit >= 56320 /\ unit <= 57343

\* The UTF-8 bytes of one scalar value.
Utf8OfScalar(c) ==
  IF c < 128 THEN <<c>>
  ELSE IF c < 2048 THEN <<192 + (c \div 64), 128 + (c % 64)>>
  ELSE IF c < 65536
    THEN <<224 + (c \div 4096), 128 + ((c \div 64) % 64), 128 + (c % 64)>>
  ELSE <<240 + (c \div 262144), 128 + ((c \div 4096) % 64),
         128 + ((c \div 64) % 64), 128 + (c % 64)>>

\* new TextEncoder().encode(text): a surrogate pair is one scalar value, an
\* unpaired surrogate is encoded as U+FFFD.
RECURSIVE TextEncode(_)
TextEncode(text) ==
  IF text = <<>> THEN <<>>
  ELSE IF Len(text) >= 2 /\ IsHighSurrogate(text[1]) /\ IsLowSurrogate(text[2])
    THEN Utf8OfScalar(65536 + (text[1] - 55296) * 1024 + (text[2] - 56320))
           \o TextEncode(SubSeq(text, 3, Len(text)))
  ELSE IF IsHighSurrogate(text[1]) \/ IsLowSurrogate(text[1])
    THEN Utf8OfScalar(65533) \o TextEncode(Tail(text))
  ELSE Utf8OfScalar(text[1]) \o TextEncode(Tail(text))

\* The number of bytes the sequence led by byte b has.
Utf8Width(b) ==
  IF b < 128 THEN 1 ELSE IF b < 224 THEN 2 ELSE IF b < 240 THEN 3 ELSE 4

\* The scalar value of one whole UTF-8 sequence.
ScalarOfUtf8(b) ==
  IF Len(b) = 1 THEN b[1]
  ELSE IF Len(b) = 2 THEN (b[1] - 192) * 64 + (b[2] - 128)
  ELSE IF Len(b) = 3 THEN (b[1] - 224) * 4096 + (b[2] - 128) * 64 + (b[3] - 128)
  ELSE (b[1] - 240) * 262144 + (b[2] - 128) * 4096 + (b[3] - 128) * 64
         + (b[4] - 128)

\* The code units of one scalar value.
UnitsOfScalar(c) ==
  IF c < 65536 THEN <<c>>
  ELSE <<55296 + ((c - 65536) \div 1024), 56320 + ((c - 65536) % 1024)>>

\* new TextDecoder().decode(bytes); a sequence cut short decodes to U+FFFD.
RECURSIVE TextDecode(_)
TextDecode(bytes) ==
  IF bytes = <<>> THEN <<>>
  ELSE IF Utf8Width(bytes[1]) > Len(bytes) THEN <<65533>>
  ELSE UnitsOfScalar(ScalarOfUtf8(SubSeq(bytes, 1, Utf8Width(bytes[1]))))
         \o TextDecode(SubSeq(bytes, Utf8Width(bytes[1]) + 1, Len(bytes)))

\* The text of platform API token t, cut down to the code unit that tells
\* the tokens apart.
TokenText(t) ==
  <<64 + t>>

\* crypto.getRandomValues(new Uint8Array(12)), the generator's n-th output:
\* twelve bytes no other output has.
getRandomValues(n) ==
  [i \in 1..IvBytes |-> n]

\* The decoded bytes handed to importKey whole.
keyDataWhole(keyString) ==
  base64ToArrayBuffer(trim(keyString))

\* A key string's key bytes: trimmed, decoded, cut to 32 bytes.
keyData(keyString) ==
  LET decoded == base64ToArrayBuffer(trim(keyString))
  IN IF Len(decoded) > KeyBytes THEN SubSeq(decoded, 1, KeyBytes) ELSE decoded

\* crypto.subtle.importKey('raw', keyData, AES-GCM) takes the key.
importKey(keyString) ==
  Len(keyData(keyString)) \in AesKeyLengths

\* crypto.subtle.encrypt({ name: 'AES-GCM', iv }, key, data): the ciphertext
\* and the authentication tag, which is bound to the key, the IV and the data.
SubtleEncrypt(key, iv, data) ==
  <<[part |-> "ciphertext", data |-> data, flipped |-> FALSE],
    [part |-> "tag", key |-> key, iv |-> iv, data |-> data, flipped |-> FALSE]>>

\* crypto.subtle.decrypt: the tag verifies only over the untouched output of
\* an encryption under the same key and IV.
SubtleDecrypt(key, iv, data) ==
  IF /\ Len(data) >= 1
     /\ data[1].part = "ciphertext"
     /\ data = SubtleEncrypt(key, iv, data[1].data)
    THEN [ok |-> TRUE, value |-> data[1].data]
    ELSE [ok |-> FALSE, value |-> <<>>]

\* encryptToken, the key importable, with the IV the generator gave as its
\* random-th output: base64 of IV + ciphertext + tag.
encryptToken(plaintext, keyString, random) ==
  LET iv == getRandomValues(random)
  IN arrayBufferToBase64(iv \o SubtleEncrypt(keyData(keyString), iv,
                                             TextEncode(plaintext)))

\* The IV is the first 16 bytes.
SliceIvLong(combined) ==
  SubSeq(combined, 1, IF Len(combined) < 16 THEN Len(combined) ELSE 16)

\* combined.slice(0, 12)
SliceIv(combined) ==
  SubSeq(combined, 1, IF Len(combined) < IvBytes THEN Len(combined) ELSE IvBytes)

\* decryptToken: the plaintext, or a throw (ok = FALSE) when the key is not
\* importable or the tag does not verify.
decryptToken(blob, keyString) ==
  LET combined == base64ToArrayBuffer(blob)
      iv == SliceIv(combined)
      data == SubSeq(combined, Len(iv) + 1, Len(combined))
      opened == SubtleDecrypt(keyData(keyString), iv, data)
  IN IF importKey(keyString) /\ opened.ok
       THEN [ok |-> TRUE, value |-> TextDecode(opened.value)]
       ELSE [ok |-> FALSE, value |-> <<>>]

\* The process-wide encryption key (Env.ENCRYPTION_KEY): 32 bytes.
ENCRYPTION_KEY ==
  arrayBufferToBase64([i \in 1..KeyBytes |-> 7])

\* hashApiKey / hashContent: SHA-256, hex encoded.
hashApiKey(apiKey) == <<"sha256", "key", apiKey>>
hashContent(content) == <<"sha256", "content", content>>

\* `axp-${siteId}`: the prefix keeps the name apart from the identifier.
WorkerName(siteId) == 1000 + siteId

\* The account the platform lists first for a token.
AccountOf(token) == 100 + token

\* ---------------------------------------------------------------- locals
NoBlob == arrayBufferToBase64(<<>>)
NoWorker == [exists |-> FALSE, kv |-> NULL, CLIENT_API_KEY |-> NULL]

NoResult == [code |-> NULL, success |-> FALSE, error |-> "", value |-> NULL]

\* The locals of a handler.  op, step, total, failed, calls, was, before and
\* old are not variables of the code: they record which handler runs, where
\* it threw, how many rows the sync selected, how many remote calls it issued
\* and how many of them failed, and what the request found when it began
\* (the deployment's status; the id and content of the variant at the path);
\* probe records what became of the health probe's request.
Idle == [op |-> "", user |-> NULL, site |-> NULL, zone |-> NULL, dep |-> NULL,
         probe |-> "", path |-> NULL, content |-> NULL, token |-> NULL, blob |-> NoBlob,
         attempt |-> NULL, kv |-> NULL, route |-> NULL, key |-> NULL,
         existing |-> NULL, variantId |-> NULL, todo |-> <<>>, count |-> 0,
         total |-> 0, failed |-> 0, calls |-> 0, step |-> "",
         was |-> "", before |-> NULL, old |-> NULL, result |-> NoResult]

\* A handler's return: the response is kept until the slot is released.
Finish(p, l, code, success, error, value) ==
  /\ pc' = [pc EXCEPT ![p] = "done"]
  /\ loc' = [loc EXCEPT ![p] =
       [l EXCEPT !.result = [code |-> code, success |-> success,
                             error |-> error, value |-> value]]]

Goto(p, l, label) ==
  /\ pc' = [pc EXCEPT ![p] = label]
  /\ loc' = [loc EXCEPT ![p] = l]

\* A try block without its catch: the failure reaches the enclosing catch.
Uncaught(p, l, failedNow, next, rethrown) ==
  IF failedNow THEN rethrown ELSE Goto(p, l, next)

\* try { ... } catch (error) { console.error(...) }: whether or not the call
\* failed, the handler goes on; `rethrown` is what the enclosing catch would
\* answer.
Caught(p, l, failedNow, next, rethrown) ==
  /\ pc' = [pc EXCEPT ![p] = next]
  /\ loc' = [loc EXCEPT ![p] = l]

\* KV_SESSIONS empty, no request seen.  now is Date.now() counted from the
\* start (the code only compares differences); kv is the stored list of each
\* user's key ratelimit:<user>:/api/cloudflare/connect; seen counts the
\* requests, errors those in which KV_SESSIONS threw; user, at and requests
\* are the request in hand, its clock reading and its list; admitted lists
\* the requests that reached the handler.  calls are the requests in hand
\* where two may be in the middleware at once, raced whether one of them read
\* the list between the get and the put of the other.
NoLimiter ==
  [kv |-> [u \in Users |-> <<>>], now |-> 0, seen |-> 0, errors |-> 0,
   stage |-> "idle", user |-> NULL, at |-> 0, requests |-> <<>>,
   admitted |-> <<>>, answer |-> NULL,
   calls |-> [p \in Procs |-> [stage |-> "idle", at |-> 0, requests |-> <<>>,
                               answer |-> NULL]],
   raced |-> FALSE]

\* No request at the customer's worker, its namespace empty.  rows are the
\* Variant rows of the worker's deployment with their url_path as text;
\* decodes says what the platform does with the key text of a request URL,
\* earlier whether the variant routes are those of the earlier version.
NoEdge ==
  [stage |-> "off", store |-> {}, rows |-> {}, decodes |-> FALSE,
   earlier |-> FALSE,
   request |-> [userAgent |-> <<>>, path |-> <<>>],
   reads |-> 0, waiting |-> <<>>, posted |-> <<>>,
   response |-> [by |-> "", body |-> "", botType |-> <<>>,
                 request |-> [userAgent |-> <<>>, path |-> <<>>]]]

\* No call of encryptToken or decryptToken made.  plaintext, key and other
\* are the inputs; drawn counts the IVs the generator has given out; first
\* and second are the blobs of the two encryptions; given is the blob handed
\* to decryptToken, touched the byte of it that was changed (0: none), with
\* the key string used, opened what decryptToken answered.
NoVault ==
  [stage |-> "off", plaintext |-> <<>>, key |-> arrayBufferToBase64(<<>>),
   other |-> arrayBufferToBase64(<<>>), drawn |-> 0, first |-> NoBlob,
   second |-> NoBlob, given |-> NoBlob, touched |-> 0,
   with |-> arrayBufferToBase64(<<>>), opened |-> [ok |-> FALSE, value |-> <<>>]]

\* The Registry after the migration, the customer's account untouched, no
\* request in flight.
Fresh ==
  /\ users = {}
  /\ connections = {}
  /\ connSeq = 0
  /\ deployments = <<>>
  /\ api_keys = <<>>
  /\ variants = {}
  /\ variantSeq = 0
  /\ ai_requests = <<>>
  /\ kvNamespaces = {}
  /\ kvData = [k \in 1..MaxAttempts |-> [q \in Paths |-> NULL]]
  /\ workers = [s \in Sites |-> NoWorker]
  /\ routes = {}
  /\ attempts = 0
  /\ writes = 0
  /\ pc = [p \in Procs |-> "idle"]
  /\ loc = [p \in Procs |-> Idle]

Init ==
  /\ Fresh
  /\ limiter = NoLimiter
  /\ vault = NoVault
  /\ edge = NoEdge

\* The slot is released once the response has been sent.
Return(p) ==
  /\ pc[p] = "done"
  /\ pc' = [pc EXCEPT ![p] = "idle"]
  /\ loc' = [loc EXCEPT ![p] = Idle]
  /\ UNCHANGED <<outside, registry, remote, counters>>

\* ------------------------------------------------- POST /api/cloudflare/connect
\* Token check, verifyToken and listAccounts: the platform's answers do not
\* depend on anything the handlers change, so the three run as one step.
\* `callers` and `tokens` are the request's possible senders and tokens.
\* `good` is isValidCloudflareToken(token); `isValid` is verifyToken's answer;
\* `listing` is listAccounts: it throws, lists nothing, or lists the account.
\* A handler that goes on with whatever the listing returned.
NoAccountsUnchecked(listing) ==
  FALSE

\* accounts.length === 0
NoAccounts(listing) ==
  listing = "empty"

\* l.count is accounts.length where the listing returned, 0 where it threw.
ConnectBegin(p, callers, tokens) ==
  /\ pc[p] = "idle"
  /\ \E u \in callers, t \in tokens, good \in BOOLEAN, isValid \in BOOLEAN,
        listing \in {"throws", "empty", "account"}, iv \in {1} :
       LET l == [Idle EXCEPT !.op = "connect", !.user = u, !.token = t,
                             !.count = IF good /\ listing = "account" THEN 1 ELSE 0] IN
       /\ IF ~good
            THEN Finish(p, l, 400, FALSE, "Invalid token format", NULL)
          ELSE IF listing = "throws"
            THEN Finish(p, [l EXCEPT !.calls = 2], 500, FALSE,
                        "Failed to connect Cloudflare account", NULL)
          ELSE IF NoAccounts(listing)
            THEN IF ~isValid
                   THEN Finish(p, [l EXCEPT !.calls = 2], 401, FALSE,
                               "Invalid or expired Cloudflare API token", NULL)
                   ELSE Finish(p, [l EXCEPT !.calls = 2], 400, FALSE,
                               "No Cloudflare accounts found for this token", NULL)
          ELSE Goto(p, [l EXCEPT !.calls = 2,
                                  !.blob = encryptToken(TokenText(t), ENCRYPTION_KEY,
                                                       iv)],
                    "c_user")
  /\ UNCHANGED <<outside, registry, remote, counters>>

\* SELECT id FROM users WHERE id = ?
ConnectUserLookup(p) ==
  /\ pc[p] = "c_user"
  /\ IF \E r \in users : r.id = loc[p].user
       THEN Goto(p, loc[p], "c_sel")
       ELSE Goto(p, loc[p], "c_userins")
  /\ UNCHANGED <<outside, registry, remote, counters>>

\* INSERT INTO users (id, email, name) VALUES (?, 'test@example.com', ...):
\* id is the primary key and email is UNIQUE.
ConnectUserInsert(p) ==
  /\ pc[p] = "c_userins"
  /\ IF \E r \in users : r.id = loc[p].user \/ r.email = "test@example.com"
       THEN /\ Finish(p, loc[p], 500, FALSE, "Failed to connect Cloudflare account", NULL)
            /\ UNCHANGED users
       ELSE /\ users' = users \cup {[id |-> loc[p].user, email |-> "test@example.com"]}
            /\ Goto(p, loc[p], "c_sel")
  /\ UNCHANGED <<outside, ai_requests, connections, connSeq, deployments, api_keys,
                 variants, variantSeq, remote, counters>>

\* ... WHERE user_id = ? AND status = 'active'
ConnectionLookupActive(userId) ==
  {r \in connections : r.user_id = userId /\ r.status = "active"}

\* The rows of SELECT id FROM cloudflare_connections WHERE user_id = ?
ConnectionLookup(userId) ==
  {r \in connections : r.user_id = userId}

\* const existingConnection = await ... .first()
ConnectSelect(p) ==
  /\ pc[p] = "c_sel"
  /\ IF ConnectionLookup(loc[p].user) # {}
       THEN \E r \in ConnectionLookup(loc[p].user) :
              /\ Goto(p, [loc[p] EXCEPT !.existing = r.id], "c_write")
       ELSE Goto(p, [loc[p] EXCEPT !.existing = NULL], "c_write")
  /\ UNCHANGED <<outside, registry, remote, counters>>

\* UPDATE ... WHERE user_id = ?   or   INSERT INTO cloudflare_connections
ConnectWrite(p) ==
  /\ pc[p] = "c_write"
  /\ LET l == loc[p] IN
     /\ IF l.existing # NULL
          THEN /\ connections' =
                    {IF r.user_id = l.user
                       THEN [r EXCEPT !.account_id = AccountOf(l.token),
                                      !.token_encrypted = l.blob,
                                      !.status = "active"]
                       ELSE r : r \in connections}
               /\ UNCHANGED connSeq
          ELSE /\ connections' = connections \cup
                    {[id |-> connSeq + 1, user_id |-> l.user,
                      account_id |-> AccountOf(l.token),
                      token_encrypted |-> l.blob, status |-> "active"]}
               /\ connSeq' = connSeq + 1
     /\ Finish(p, l, 200, TRUE, "", AccountOf(l.token))
  /\ UNCHANGED <<outside, ai_requests, users, deployments, api_keys, variants,
                 variantSeq, remote, counters>>

\* ---------------------------------------------- DELETE /api/cloudflare/disconnect
Disconnect(p) ==
  /\ pc[p] = "idle"
  /\ \E u \in Users :
       /\ connections' = {IF r.user_id = u THEN [r EXCEPT !.status = "disconnected"]
                          ELSE r : r \in connections}
       /\ Finish(p, [Idle EXCEPT !.op = "disconnect", !.user = u], 200, TRUE, "", NULL)
  /\ UNCHANGED <<outside, ai_requests, users, connSeq, deployments, api_keys, variants,
                 variantSeq, remote, counters>>


\* ------------------------------------------------------- DeploymentService.deploy
\* The rows of a SELECT in rowid order.
RECURSIVE InIdOrder(_)
InIdOrder(S) ==
  IF S = {} THEN <<>>
  ELSE LET m == CHOOSE r \in S : \A o \in S : r.id <= o.id
       IN <<[url_path |-> m.url_path, content |-> m.content]>> \o InIdOrder(S \ {m})

\* The Deployment row written as soon as the namespace exists.
DeployOrderEarlyInsert ==
  <<"d_kv", "d_insert", "d_upload", "d_sec1", "d_sec2", "d_sec3", "d_route",
    "d_sync", "d_key", "d_health", "d_return">>

\* The statements of deploy after the connection lookup, in program order.
DeployOrder ==
  <<"d_kv", "d_upload", "d_sec1", "d_sec2", "d_sec3", "d_route", "d_sync",
    "d_insert", "d_key", "d_health", "d_return">>

\* The statement that follows `label`.
After(label) ==
  DeployOrder[1 + CHOOSE i \in 1..(Len(DeployOrder) - 1) : DeployOrder[i] = label]

\* A catch that deletes the key-value store the attempt created.
DeployFailRollback(p, l, message) ==
  /\ Finish(p, l, 500, FALSE, message, NULL)
  /\ kvNamespaces' = kvNamespaces \ {l.attempt}
  /\ UNCHANGED <<kvData, workers, routes>>

\* catch (error): { success: false, error: error.message }, answered 500 by
\* the route; the catch makes no remote call.
DeployFail(p, l, message) ==
  /\ Finish(p, l, 500, FALSE, message, NULL)
  /\ UNCHANGED remote

\* Every connection row of the user, whatever its status.
AnyConnections(userId) ==
  {r \in connections : r.user_id = userId}

\* SELECT account_id, token_encrypted FROM cloudflare_connections
\* WHERE user_id = ? AND status = 'active'
ActiveConnections(userId) ==
  {r \in connections : r.user_id = userId /\ r.status = "active"}

\* Steps 1-2: the active connection of the user and its decrypted token.
DeployBegin(p) ==
  /\ pc[p] = "idle"
  /\ attempts < MaxAttempts
  /\ \E u \in Users, s \in Sites, z \in Zones :
       LET l == [Idle EXCEPT !.op = "deploy", !.user = u, !.site = s, !.zone = z] IN
       IF ActiveConnections(u) = {}
         THEN /\ Finish(p, [l EXCEPT !.step = "connection"], 500, FALSE,
                        "No active Cloudflare connection found", NULL)
              /\ UNCHANGED attempts
         ELSE \E r \in ActiveConnections(u) :
                /\ attempts' = attempts + 1
                /\ IF decryptToken(r.token_encrypted, ENCRYPTION_KEY).ok
                     THEN Goto(p, [l EXCEPT !.attempt = attempts + 1], DeployOrder[1])
                     ELSE DeployFail(p, [l EXCEPT !.attempt = attempts + 1,
                                                   !.step = "decrypt"],
                                     "Decryption failed")
  /\ UNCHANGED <<outside, registry, remote, writes>>

\* A lookup by title before the POST: a store a former attempt left is taken.
createKVNamespaceOrFind(l) ==
  IF kvNamespaces = {} THEN l.attempt ELSE CHOOSE k \in kvNamespaces : TRUE

\* createKVNamespace: POST .../storage/kv/namespaces; the store in data.result
\* is one this call made.
createKVNamespace(l) ==
  l.attempt

\* Step 4: createKVNamespace.  The namespace made is new; its id is read from
\* the response unchecked.
DeployCreateKV(p) ==
  /\ pc[p] = "d_kv"
  /\ LET l == [loc[p] EXCEPT !.calls = @ + 1] IN
     \E ok \in BOOLEAN :
       IF ok
         THEN /\ kvNamespaces' = kvNamespaces \cup {createKVNamespace(l)}
              /\ \E id \in {createKVNamespace(l), NULL} :
                   Goto(p, [l EXCEPT !.kv = id], After("d_kv"))
              /\ UNCHANGED <<kvData, workers, routes>>
         ELSE DeployFail(p, [l EXCEPT !.step = "kv"], "Failed to create KV namespace")
  /\ UNCHANGED <<outside, registry, counters>>

\* Step 6: uploadWorker with the VARIANTS binding.
DeployUploadWorker(p) ==
  /\ pc[p] = "d_upload"
  /\ LET l == [loc[p] EXCEPT !.calls = @ + 1] IN
     \E ok \in BOOLEAN :
       IF ok
         THEN /\ workers' = [workers EXCEPT ![l.site] =
                   [@ EXCEPT !.exists = TRUE, !.kv = l.kv]]
              /\ Goto(p, l, After("d_upload"))
              /\ UNCHANGED <<kvNamespaces, kvData, routes>>
         ELSE DeployFail(p, [l EXCEPT !.step = "upload"], "Failed to upload worker")
  /\ UNCHANGED <<outside, registry, counters>>

\* setWorkerSecret: rejected when the worker does not exist.  SITE_ID and
\* API_ENDPOINT get the same value at every provisioning of a worker name,
\* so only CLIENT_API_KEY is kept.
SetWorkerSecret(p, l, ok, name, value, next) ==
  IF ok /\ workers[l.site].exists
    THEN /\ workers' = IF name = "CLIENT_API_KEY"
                         THEN [workers EXCEPT ![l.site].CLIENT_API_KEY = value]
                         ELSE workers
         /\ Goto(p, l, next)
         /\ UNCHANGED <<kvNamespaces, kvData, routes>>
    ELSE DeployFail(p, [l EXCEPT !.step = name], "Failed to set worker secret")

\* Step 7: generateApiKey (a key never issued before), then the three secrets.
DeploySecretApiKey(p) ==
  /\ pc[p] = "d_sec1"
  /\ LET l == [loc[p] EXCEPT !.calls = @ + 1, !.key = loc[p].attempt] IN
     \E ok \in BOOLEAN :
       SetWorkerSecret(p, l, ok, "CLIENT_API_KEY", l.key, After("d_sec1"))
  /\ UNCHANGED <<outside, registry, counters>>

DeploySecretSiteId(p) ==
  /\ pc[p] = "d_sec2"
  /\ LET l == [loc[p] EXCEPT !.calls = @ + 1] IN
     \E ok \in BOOLEAN : SetWorkerSecret(p, l, ok, "SITE_ID", l.site, After("d_sec2"))
  /\ UNCHANGED <<outside, registry, counters>>

DeploySecretEndpoint(p) ==
  /\ pc[p] = "d_sec3"
  /\ LET l == [loc[p] EXCEPT !.calls = @ + 1] IN
     \E ok \in BOOLEAN : SetWorkerSecret(p, l, ok, "API_ENDPOINT", TRUE, After("d_sec3"))
  /\ UNCHANGED <<outside, registry, counters>>

\* Step 8: addWorkerRoute; route.id is read from the response unchecked.
DeployAddRoute(p) ==
  /\ pc[p] = "d_route"
  /\ LET l == [loc[p] EXCEPT !.calls = @ + 1] IN
     \E ok \in BOOLEAN :
       IF ok
         THEN /\ routes' = routes \cup
                   {[id |-> l.attempt, zone |-> l.zone, script |-> WorkerName(l.site)]}
              /\ \E id \in {l.attempt, NULL} :
                   Goto(p, [l EXCEPT !.route = id], After("d_route"))
              /\ UNCHANGED <<kvNamespaces, kvData, workers>>
         ELSE DeployFail(p, [l EXCEPT !.step = "route"], "Failed to add worker route")
  /\ UNCHANGED <<outside, registry, counters>>

\* uploadExistingVariants, the SELECT: the user's active variants, of the
\* deployment when one is given.
SelectVariants(userId, deploymentId) ==
  InIdOrder({v \in variants :
               /\ v.user_id = userId
               /\ v.status = "active"
               /\ (deploymentId # NULL => v.deployment_id = deploymentId)})

\* The loop with count++ after the catch: failures are counted too.
UploadOneCountsAll(l, ok) ==
  IF ok /\ l.kv \in kvNamespaces
    THEN [l EXCEPT !.todo = Tail(@), !.calls = @ + 1, !.count = @ + 1]
    ELSE [l EXCEPT !.todo = Tail(@), !.calls = @ + 1, !.count = @ + 1,
                   !.failed = @ + 1]

\* uploadExistingVariants, one turn of the loop: putKVValue and count++ inside
\* try/catch.  The put is rejected when the namespace does not exist.
UploadOne(l, ok) ==
  IF ok /\ l.kv \in kvNamespaces
    THEN [l EXCEPT !.todo = Tail(@), !.calls = @ + 1, !.count = @ + 1]
    ELSE [l EXCEPT !.todo = Tail(@), !.calls = @ + 1, !.failed = @ + 1]

\* putKVValue's effect on the namespace.
PutKV(kv, key, value, ok) ==
  IF ok /\ kv \in kvNamespaces
    THEN kvData' = [kvData EXCEPT ![kv][key] = value]
    ELSE UNCHANGED kvData

\* Step 9: the variants to upload.
DeploySync(p) ==
  /\ pc[p] = "d_sync"
  /\ LET todo == SelectVariants(loc[p].user, NULL)
         l == [loc[p] EXCEPT !.todo = todo, !.total = Len(todo)]
     IN Goto(p, l, IF todo = <<>> THEN After("d_sync") ELSE "d_put")
  /\ UNCHANGED <<outside, registry, remote, counters>>

DeployPut(p) ==
  /\ pc[p] = "d_put"
  /\ \E ok \in BOOLEAN :
       LET l == UploadOne(loc[p], ok) IN
       /\ PutKV(loc[p].kv, Head(loc[p].todo).url_path, Head(loc[p].todo).content, ok)
       /\ Caught(p, l, l.failed > loc[p].failed,
                 IF l.todo = <<>> THEN After("d_sync") ELSE "d_put",
                 DeployFail(p, [l EXCEPT !.step = "put"], "Failed to put KV value"))
  /\ UNCHANGED <<outside, registry, kvNamespaces, workers, routes, counters>>

\* The schema of deployments without its NOT NULL columns.
DeploymentRowAnything(row) ==
  TRUE

\* The schema of deployments: worker_name and kv_namespace_id are NOT NULL.
DeploymentRowAccepted(row) ==
  row.worker_name # NULL /\ row.kv_namespace_id # NULL

\* Step 10: INSERT INTO deployments ... 'active'.  `attempt` is no column: it
\* names the provisioning attempt that wrote the row.
DeployInsert(p) ==
  /\ pc[p] = "d_insert"
  /\ LET l == loc[p]
         row == [user_id |-> l.user, zone_id |-> l.zone,
                 worker_name |-> WorkerName(l.site),
                 kv_namespace_id |-> l.kv, route_id |-> l.route,
                 status |-> "active", attempt |-> l.attempt]
     IN IF DeploymentRowAccepted(row)
          THEN /\ deployments' = Append(deployments, row)
               /\ Goto(p, [l EXCEPT !.dep = Len(deployments) + 1], After("d_insert"))
          ELSE /\ DeployFail(p, [l EXCEPT !.step = "insert"], "NOT NULL constraint failed")
               /\ UNCHANGED deployments
  /\ UNCHANGED <<outside, ai_requests, users, connections, connSeq, api_keys, variants,
                 variantSeq, remote, counters>>

\* Step 11: INSERT INTO api_keys.
DeployStoreKey(p) ==
  /\ pc[p] = "d_key"
  /\ LET l == loc[p] IN
     /\ api_keys' = Append(api_keys,
          [user_id |-> l.user, key_hash |-> hashApiKey(l.key),
           deployment_id |-> l.dep, status |-> "active", attempt |-> l.attempt])
     /\ Goto(p, l, After("d_key"))
  /\ UNCHANGED <<outside, ai_requests, users, connections, connSeq, deployments,
                 variants, variantSeq, remote, counters>>

\* The scripts a request to the zone is routed to: zoneName/* covers "/".
WorkersOfZone(zone) ==
  {s \in Sites : /\ workers[s].exists
                 /\ \E r \in routes : r.zone = zone /\ r.script = WorkerName(s)}

\* The worker's namespace holds at least one value.
StoreHasValues(s) ==
  /\ workers[s].kv \in kvNamespaces
  /\ \E q \in Paths : kvData[workers[s].kv][q] # NULL

\* What can become of GET https://<zoneName>/ sent as GPTBot/1.0: the fetch
\* throws ("unreached"); no worker is on the route and the origin answers
\* ("direct"); the worker runs, gets nothing truthy from VARIANTS under
\* encodeURIComponent("/") and passes the request to the origin ("origin");
\* the worker finds a variant and answers it with x-served-by: AXP ("AXP").
\* Which key of the namespace the worker's "%2F" meets is the platform's
\* matter; a namespace without values has none.  The origin sets no such header.
ProbeOutcomes(zone) ==
  {"unreached"}
    \cup (IF WorkersOfZone(zone) = {} THEN {"direct"} ELSE {"origin"})
    \cup (IF \E s \in WorkersOfZone(zone) : StoreHasValues(s) THEN {"AXP"} ELSE {})

\* A probe that asks only whether a worker ran.
healthCheckAnyWorker(probe) ==
  probe \in {"origin", "AXP"}

\* healthCheck: response.headers.get('x-served-by') === 'AXP'; false when the
\* fetch threw.
healthCheck(probe) ==
  probe = "AXP"

\* Step 12: isHealthy is logged as PASS or FAIL and used for nothing else.
DeployHealth(p) ==
  /\ pc[p] = "d_health"
  /\ \E probe \in ProbeOutcomes(loc[p].zone) :
       Goto(p, [loc[p] EXCEPT !.probe = probe,
                              !.step = IF healthCheck(probe) THEN "PASS" ELSE "FAIL"],
            After("d_health"))
  /\ UNCHANGED <<outside, registry, remote, counters>>

\* return { success: true, deploymentId, workerName, kvNamespaceId, variantsUploaded }
DeployReturn(p) ==
  /\ pc[p] = "d_return"
  /\ LET l == loc[p] IN
     Finish(p, l, 200, TRUE, "",
            [deploymentId |-> l.dep, workerName |-> WorkerName(l.site),
             kvNamespaceId |-> l.kv, variantsUploaded |-> l.count])
  /\ UNCHANGED <<outside, registry, remote, counters>>

\* SELECT d.*, c.account_id, c.token_encrypted FROM deployments d JOIN
\* cloudflare_connections c ON d.user_id = c.user_id WHERE d.id = ? AND
\* d.user_id = ? [AND d.status = 'active']: the joined rows.
DeploymentJoin(deploymentId, userId, activeOnly) ==
  {c \in connections :
     /\ deploymentId \in 1..Len(deployments)
     /\ deployments[deploymentId].user_id = userId
     /\ (activeOnly => deployments[deploymentId].status = "active")
     /\ c.user_id = userId}

\* ------------------------------------------------ PUT /api/deployments/:id/variants
\* DeploymentService.updateVariants: what it throws the route answers with 500.
ResyncFail(p, l) ==
  Finish(p, l, 500, FALSE, "Failed to update variants", NULL)

ResyncBegin(p) ==
  /\ pc[p] = "idle"
  /\ \E u \in Users, d \in 1..MaxAttempts :
       LET l == [Idle EXCEPT !.op = "resync", !.user = u, !.dep = d] IN
       IF DeploymentJoin(d, u, TRUE) = {}
         THEN ResyncFail(p, [l EXCEPT !.step = "not found"])
         ELSE \E c \in DeploymentJoin(d, u, TRUE) :
                IF decryptToken(c.token_encrypted, ENCRYPTION_KEY).ok
                  THEN Goto(p, [l EXCEPT !.kv = deployments[d].kv_namespace_id,
                                         !.was = deployments[d].status], "u_sel")
                  ELSE ResyncFail(p, [l EXCEPT !.step = "decrypt"])
  /\ UNCHANGED <<outside, registry, remote, counters>>

ResyncSelect(p) ==
  /\ pc[p] = "u_sel"
  /\ LET todo == SelectVariants(loc[p].user, loc[p].dep)
         l == [loc[p] EXCEPT !.todo = todo, !.total = Len(todo)]
     IN Goto(p, l, IF todo = <<>> THEN "u_touch" ELSE "u_put")
  /\ UNCHANGED <<outside, registry, remote, counters>>

ResyncPut(p) ==
  /\ pc[p] = "u_put"
  /\ \E ok \in BOOLEAN :
       LET l == UploadOne(loc[p], ok) IN
       /\ PutKV(loc[p].kv, Head(loc[p].todo).url_path, Head(loc[p].todo).content, ok)
       /\ Caught(p, l, l.failed > loc[p].failed,
                 IF l.todo = <<>> THEN "u_touch" ELSE "u_put",
                 ResyncFail(p, [l EXCEPT !.step = "put"]))
  /\ UNCHANGED <<outside, registry, kvNamespaces, workers, routes, counters>>

\* UPDATE deployments SET last_updated = datetime('now'); then return count.
ResyncTouch(p) ==
  /\ pc[p] = "u_touch"
  /\ Finish(p, loc[p], 200, TRUE, "", loc[p].count)
  /\ UNCHANGED <<outside, registry, remote, counters>>

\* ----------------------------------------------------- DELETE /api/deployments/:id
\* A lookup that, like updateVariants', sees active deployments only.
TeardownLookupActiveOnly(deploymentId, userId) ==
  DeploymentJoin(deploymentId, userId, TRUE)

\* deleteDeployment's SELECT: the deployment of the user, whatever its status.
TeardownLookup(deploymentId, userId) ==
  DeploymentJoin(deploymentId, userId, FALSE)

TeardownFail(p, l) ==
  Finish(p, l, 500, FALSE, "Failed to delete deployment", NULL)

TeardownBegin(p) ==
  /\ pc[p] = "idle"
  /\ \E u \in Users, d \in 1..MaxAttempts :
       LET l == [Idle EXCEPT !.op = "teardown", !.user = u, !.dep = d,
                             !.was = IF d \in 1..Len(deployments)
                                       THEN deployments[d].status ELSE ""] IN
       IF TeardownLookup(d, u) = {}
         THEN TeardownFail(p, [l EXCEPT !.step = "not found"])
         ELSE \E c \in TeardownLookup(d, u) :
                IF decryptToken(c.token_encrypted, ENCRYPTION_KEY).ok
                  THEN Goto(p, [l EXCEPT !.kv = deployments[d].kv_namespace_id,
                                         !.route = deployments[d].route_id,
                                         !.zone = deployments[d].zone_id,
                                         !.site = deployments[d].worker_name],
                            "t_route")
                  ELSE TeardownFail(p, [l EXCEPT !.step = "decrypt"])
  /\ UNCHANGED <<outside, registry, remote, counters>>

\* try { if (routeId) deleteWorkerRoute(zoneId, routeId) } catch { log }
TeardownRoute(p) ==
  /\ pc[p] = "t_route"
  /\ LET l == loc[p] IN
     IF l.route = NULL
       THEN /\ Goto(p, l, "t_worker")
            /\ UNCHANGED routes
       ELSE \E ok \in BOOLEAN :
              LET deleted == ok /\ \E r \in routes : r.id = l.route
                  m == [l EXCEPT !.calls = @ + 1,
                                 !.failed = @ + (IF deleted THEN 0 ELSE 1)] IN
              /\ routes' = IF deleted THEN {r \in routes : r.id # l.route} ELSE routes
              /\ Caught(p, m, ~deleted, "t_worker",
                        TeardownFail(p, [m EXCEPT !.step = "route"]))
  /\ UNCHANGED <<outside, registry, kvNamespaces, kvData, workers, counters>>

\* try { deleteWorker(accountId, workerName) } catch { log }
TeardownWorker(p) ==
  /\ pc[p] = "t_worker"
  /\ LET l == loc[p] IN
     \E ok \in BOOLEAN, s \in Sites :
       LET deleted == ok /\ workers[s].exists
           m == [l EXCEPT !.calls = @ + 1,
                          !.failed = @ + (IF deleted THEN 0 ELSE 1)] IN
       /\ WorkerName(s) = l.site
       /\ workers' = IF deleted THEN [workers EXCEPT ![s] = NoWorker] ELSE workers
       /\ Caught(p, m, ~deleted, "t_kv", TeardownFail(p, [m EXCEPT !.step = "worker"]))
  /\ UNCHANGED <<outside, registry, kvNamespaces, kvData, routes, counters>>

\* try { deleteKVNamespace(accountId, kvNamespaceId) } catch { log }
TeardownKV(p) ==
  /\ pc[p] = "t_kv"
  /\ LET l == loc[p] IN
     \E ok \in BOOLEAN :
       LET deleted == ok /\ l.kv \in kvNamespaces
           m == [l EXCEPT !.calls = @ + 1,
                          !.failed = @ + (IF deleted THEN 0 ELSE 1)] IN
       /\ kvNamespaces' = IF deleted THEN kvNamespaces \ {l.kv} ELSE kvNamespaces
       /\ kvData' = IF deleted THEN [kvData EXCEPT ![l.kv] = [q \in Paths |-> NULL]]
                    ELSE kvData
       /\ Caught(p, m, ~deleted, "t_mark", TeardownFail(p, [m EXCEPT !.step = "kv"]))
  /\ UNCHANGED <<outside, registry, workers, routes, counters>>

\* UPDATE deployments SET status = 'deleted' WHERE id = ?
TeardownMark(p) ==
  /\ pc[p] = "t_mark"
  /\ deployments' = [deployments EXCEPT ![loc[p].dep].status = "deleted"]
  /\ Goto(p, loc[p], "t_keys")
  /\ UNCHANGED <<outside, ai_requests, users, connections, connSeq, api_keys, variants,
                 variantSeq, remote, counters>>

\* UPDATE api_keys SET status = 'inactive' WHERE deployment_id = ?
TeardownKeys(p) ==
  /\ pc[p] = "t_keys"
  /\ api_keys' = [i \in 1..Len(api_keys) |->
                    IF api_keys[i].deployment_id = loc[p].dep
                      THEN [api_keys[i] EXCEPT !.status = "inactive"]
                      ELSE api_keys[i]]
  /\ Finish(p, loc[p], 200, TRUE, "", NULL)
  /\ UNCHANGED <<outside, ai_requests, users, connections, connSeq, deployments,
                 variants, variantSeq, remote, counters>>

\* ------------------------------------------------------------- POST /api/variants
\* The earlier handler: no lookup, every request inserts.
VariantLookupNone(userId, deploymentId, urlPath) ==
  {}

\* SELECT id FROM variants WHERE user_id = ? AND deployment_id = ? AND url_path = ?
VariantLookup(userId, deploymentId, urlPath) ==
  {v \in variants : v.user_id = userId /\ v.deployment_id = deploymentId
                    /\ v.url_path = urlPath}

\* The rows of a (deployment, path), whoever wrote them.
VariantsAt(deploymentId, urlPath) ==
  {v \in variants : v.deployment_id = deploymentId /\ v.url_path = urlPath}

VariantCreateBegin(p) ==
  /\ pc[p] = "idle"
  /\ writes < MaxWrites
  /\ \E u \in Users, d \in 1..MaxAttempts, q \in Paths, c \in Contents :
       LET l == [Idle EXCEPT !.op = "variant", !.user = u, !.dep = d, !.path = q,
                             !.content = c,
                             !.before = IF VariantsAt(d, q) = {} THEN NULL
                                        ELSE (CHOOSE v \in VariantsAt(d, q) : TRUE).id,
                             !.old = IF VariantsAt(d, q) = {} THEN NULL
                                     ELSE (CHOOSE v \in VariantsAt(d, q) : TRUE).content] IN
       IF DeploymentJoin(d, u, TRUE) = {}
         THEN /\ Finish(p, l, 404, FALSE, "Deployment not found", NULL)
              /\ UNCHANGED writes
         ELSE \E r \in DeploymentJoin(d, u, TRUE) :
                /\ writes' = writes + 1
                /\ Goto(p, [l EXCEPT !.kv = deployments[d].kv_namespace_id,
                                     !.blob = r.token_encrypted], "v_chk")
  /\ UNCHANGED <<outside, registry, remote, attempts>>

VariantCreateLookup(p) ==
  /\ pc[p] = "v_chk"
  /\ LET l == loc[p]
         found == VariantLookup(l.user, l.dep, l.path)
     IN IF found = {}
          THEN Goto(p, [l EXCEPT !.existing = NULL], "v_write")
          ELSE \E v \in found : Goto(p, [l EXCEPT !.existing = v.id], "v_write")
  /\ UNCHANGED <<outside, registry, remote, counters>>

\* The schema of variants: UNIQUE(deployment_id, url_path).
VariantRowAccepted(row) ==
  VariantsAt(row.deployment_id, row.url_path) = {}

\* if (existingVariant?.id) UPDATE variants ... WHERE id = ?  else INSERT INTO variants
VariantCreateWrite(p) ==
  /\ pc[p] = "v_write"
  /\ LET l == loc[p]
         row == [id |-> variantSeq + 1, user_id |-> l.user, deployment_id |-> l.dep,
                 url_path |-> l.path, content |-> l.content,
                 content_hash |-> hashContent(l.content), status |-> "active"]
     IN IF l.existing # NULL
          THEN /\ variants' = {IF v.id = l.existing
                                 THEN [v EXCEPT !.content = l.content,
                                                !.content_hash = hashContent(l.content),
                                                !.status = "active"]
                                 ELSE v : v \in variants}
               /\ UNCHANGED variantSeq
               /\ Goto(p, [l EXCEPT !.variantId = l.existing], "v_put")
          ELSE IF VariantRowAccepted(row)
            THEN /\ variants' = variants \cup {row}
                 /\ variantSeq' = variantSeq + 1
                 /\ Goto(p, [l EXCEPT !.variantId = row.id], "v_put")
            ELSE /\ Finish(p, [l EXCEPT !.step = "unique"], 500, FALSE,
                           "Failed to create variant", NULL)
                 /\ UNCHANGED <<variants, variantSeq>>
  /\ UNCHANGED <<outside, ai_requests, users, connections, connSeq, deployments,
                 api_keys, remote, counters>>

\* decryptToken, then putKVValue(accountId, kvNamespaceId, urlPath, content).
VariantCreatePut(p) ==
  /\ pc[p] = "v_put"
  /\ LET l == loc[p] IN
     IF ~decryptToken(l.blob, ENCRYPTION_KEY).ok
       THEN /\ Finish(p, [l EXCEPT !.step = "decrypt"], 500, FALSE,
                      "Failed to create variant", NULL)
            /\ UNCHANGED kvData
       ELSE \E ok \in BOOLEAN :
              /\ PutKV(l.kv, l.path, l.content, ok)
              /\ IF ok /\ l.kv \in kvNamespaces
                   THEN Finish(p, [l EXCEPT !.calls = @ + 1], 200, TRUE, "", l.variantId)
                   ELSE Finish(p, [l EXCEPT !.calls = @ + 1, !.step = "put"], 500, FALSE,
                               "Failed to create variant", NULL)
  /\ UNCHANGED <<outside, registry, kvNamespaces, workers, routes, counters>>

Next ==
  \E p \in {1} :
    \/ Return(p)
    \/ ConnectBegin(p, Customers, {1})
    \/ ConnectUserLookup(p)
    \/ ConnectUserInsert(p)
    \/ ConnectSelect(p)
    \/ ConnectWrite(p)
    \/ Disconnect(p)
    \/ DeployBegin(p)
    \/ DeployCreateKV(p)
    \/ DeployUploadWorker(p)
    \/ DeploySecretApiKey(p)
    \/ DeploySecretSiteId(p)
    \/ DeploySecretEndpoint(p)
    \/ DeployAddRoute(p)
    \/ DeploySync(p)
    \/ DeployPut(p)
    \/ DeployInsert(p)
    \/ DeployStoreKey(p)
    \/ DeployHealth(p)
    \/ DeployReturn(p)
    \/ ResyncBegin(p)
    \/ ResyncSelect(p)
    \/ ResyncPut(p)
    \/ ResyncTouch(p)
    \/ TeardownBegin(p)
    \/ TeardownRoute(p)
    \/ TeardownWorker(p)
    \/ TeardownKV(p)
    \/ TeardownMark(p)
    \/ TeardownKeys(p)
    \/ VariantCreateBegin(p)
    \/ VariantCreateLookup(p)
    \/ VariantCreateWrite(p)
    \/ VariantCreatePut(p)

\* One request at a time: customer 1 connects, provisions, writes variants,
\* resyncs and tears down; caller 2 never connects and owns nothing.
Spec == Init /\ [][Next]_vars

\* ---------------------------------------------------------- PUT /api/variants/:id
\* A lookup that does not look at the owner of the row.
VariantJoinAnyUser(variantId, userId) ==
  {[v |-> v, c |-> c] : v \in {w \in variants : w.id = variantId},
                        c \in {r \in connections :
                                 \E w \in variants :
                                   /\ w.id = variantId
                                   /\ w.deployment_id \in 1..Len(deployments)
                                   /\ r.user_id = deployments[w.deployment_id].user_id}}

\* SELECT v.*, d.kv_namespace_id, c.account_id, c.token_encrypted FROM variants v
\* JOIN deployments d ON v.deployment_id = d.id
\* JOIN cloudflare_connections c ON d.user_id = c.user_id
\* WHERE v.id = ? AND v.user_id = ?
VariantJoin(variantId, userId) ==
  {[v |-> v, c |-> c] : v \in {w \in variants : w.id = variantId /\ w.user_id = userId},
                        c \in {r \in connections :
                                 \E w \in variants :
                                   /\ w.id = variantId
                                   /\ w.deployment_id \in 1..Len(deployments)
                                   /\ r.user_id = deployments[w.deployment_id].user_id}}

\* The ids a request may name: those handed out and one never handed out.
VariantIds == 1..(MaxWrites + 1)

\* parseInt of the id, the body's content (NULL: none), then the lookup.
VariantUpdateBegin(p) ==
  /\ pc[p] = "idle"
  /\ writes < MaxWrites
  /\ \E u \in Users, id \in VariantIds, c \in Contents \cup {NULL} :
       LET l == [Idle EXCEPT !.op = "variant update", !.user = u, !.variantId = id,
                             !.content = c] IN
       IF c = NULL
         THEN /\ Finish(p, l, 400, FALSE, "Missing required field: content", NULL)
              /\ UNCHANGED writes
         ELSE IF VariantJoin(id, u) = {}
           THEN /\ Finish(p, l, 404, FALSE, "Variant not found", NULL)
                /\ UNCHANGED writes
           ELSE \E r \in VariantJoin(id, u) :
                  /\ writes' = writes + 1
                  /\ Goto(p, [l EXCEPT !.dep = r.v.deployment_id,
                                       !.path = r.v.url_path,
                                       !.old = r.v.content,
                                       !.kv = deployments[r.v.deployment_id].kv_namespace_id,
                                       !.blob = r.c.token_encrypted], "w_write")
  /\ UNCHANGED <<outside, registry, remote, attempts>>

\* UPDATE variants SET content = ?, content_hash = ? WHERE id = ?
VariantUpdateWrite(p) ==
  /\ pc[p] = "w_write"
  /\ variants' = {IF v.id = loc[p].variantId
                    THEN [v EXCEPT !.content = loc[p].content,
                                   !.content_hash = hashContent(loc[p].content)]
                    ELSE v : v \in variants}
  /\ Goto(p, loc[p], "w_put")
  /\ UNCHANGED <<outside, ai_requests, users, connections, connSeq, deployments,
                 api_keys, variantSeq, remote, counters>>

\* decryptToken, then putKVValue(accountId, kvNamespaceId, urlPath, content).
VariantUpdatePut(p) ==
  /\ pc[p] = "w_put"
  /\ LET l == loc[p] IN
     IF ~decryptToken(l.blob, ENCRYPTION_KEY).ok
       THEN /\ Finish(p, [l EXCEPT !.step = "decrypt"], 500, FALSE,
                      "Failed to update variant", NULL)
            /\ UNCHANGED kvData
       ELSE \E ok \in BOOLEAN :
              /\ PutKV(l.kv, l.path, l.content, ok)
              /\ IF ok /\ l.kv \in kvNamespaces
                   THEN Finish(p, [l EXCEPT !.calls = @ + 1], 200, TRUE, "", NULL)
                   ELSE Finish(p, [l EXCEPT !.calls = @ + 1, !.step = "put"], 500, FALSE,
                               "Failed to update variant", NULL)
  /\ UNCHANGED <<outside, registry, kvNamespaces, workers, routes, counters>>

\* ------------------------------------------------------- DELETE /api/variants/:id
VariantDeleteBegin(p) ==
  /\ pc[p] = "idle"
  /\ writes < MaxWrites
  /\ \E u \in Users, id \in VariantIds :
       LET l == [Idle EXCEPT !.op = "variant delete", !.user = u, !.variantId = id] IN
       IF VariantJoin(id, u) = {}
         THEN /\ Finish(p, l, 404, FALSE, "Variant not found", NULL)
              /\ UNCHANGED writes
         ELSE \E r \in VariantJoin(id, u) :
                /\ writes' = writes + 1
                /\ Goto(p, [l EXCEPT !.dep = r.v.deployment_id,
                                     !.path = r.v.url_path,
                                     !.old = r.v.content,
                                     !.kv = deployments[r.v.deployment_id].kv_namespace_id,
                                     !.blob = r.c.token_encrypted], "x_row")
  /\ UNCHANGED <<outside, registry, remote, attempts>>

\* deleteKVValue: DELETE .../storage/kv/namespaces/<id>/values/<key>
DeleteKV(kv, key, ok) ==
  IF ok /\ kv \in kvNamespaces
    THEN kvData' = [kvData EXCEPT ![kv][key] = NULL]
    ELSE UNCHANGED kvData

\* DELETE FROM variants WHERE id = ?
VariantDeleteRow(p) ==
  /\ pc[p] = "x_row"
  /\ variants' = {v \in variants : v.id # loc[p].variantId}
  /\ Goto(p, loc[p], "x_kv")
  /\ UNCHANGED <<outside, ai_requests, users, connections, connSeq, deployments,
                 api_keys, variantSeq, remote, counters>>

\* try { decryptToken; deleteKVValue(accountId, kvNamespaceId, urlPath) }
\* catch { log }: the answer is a success either way.
VariantDeleteKV(p) ==
  /\ pc[p] = "x_kv"
  /\ LET l == loc[p] IN
     IF ~decryptToken(l.blob, ENCRYPTION_KEY).ok
       THEN /\ Finish(p, [l EXCEPT !.step = "decrypt"], 200, TRUE, "", NULL)
            /\ UNCHANGED kvData
       ELSE \E ok \in BOOLEAN :
              /\ DeleteKV(l.kv, l.path, ok)
              /\ Finish(p, [l EXCEPT !.calls = @ + 1,
                                     !.step = IF ok /\ l.kv \in kvNamespaces
                                                THEN "" ELSE "delete"],
                        200, TRUE, "", NULL)
  /\ UNCHANGED <<outside, registry, kvNamespaces, workers, routes, counters>>

NextOwner ==
  \E p \in {1} :
    \/ Return(p)
    \/ ConnectBegin(p, Users, {1})
    \/ ConnectUserLookup(p)
    \/ ConnectUserInsert(p)
    \/ ConnectSelect(p)
    \/ ConnectWrite(p)
    \/ DeployBegin(p)
    \/ DeployCreateKV(p)
    \/ DeployUploadWorker(p)
    \/ DeploySecretApiKey(p)
    \/ DeploySecretSiteId(p)
    \/ DeploySecretEndpoint(p)
    \/ DeployAddRoute(p)
    \/ DeploySync(p)
    \/ DeployPut(p)
    \/ DeployInsert(p)
    \/ DeployStoreKey(p)
    \/ DeployHealth(p)
    \/ DeployReturn(p)
    \/ ResyncBegin(p)
    \/ ResyncSelect(p)
    \/ ResyncPut(p)
    \/ ResyncTouch(p)
    \/ TeardownBegin(p)
    \/ TeardownRoute(p)
    \/ TeardownWorker(p)
    \/ TeardownKV(p)
    \/ TeardownMark(p)
    \/ TeardownKeys(p)
    \/ VariantCreateBegin(p)
    \/ VariantCreateLookup(p)
    \/ VariantCreateWrite(p)
    \/ VariantCreatePut(p)
    \/ VariantUpdateBegin(p)
    \/ VariantUpdateWrite(p)
    \/ VariantUpdatePut(p)
    \/ VariantDeleteBegin(p)
    \/ VariantDeleteRow(p)
    \/ VariantDeleteKV(p)

\* One request at a time, of either caller: connect, provision, write, change
\* and delete variants, resync and tear down.
SpecOwner == Init /\ [][NextOwner]_vars

\* Connect and disconnect requests of every caller, two in flight at once.
NextConn ==
  \E p \in Procs :
    \/ Return(p)
    \/ ConnectBegin(p, Users, Tokens)
    \/ ConnectUserLookup(p)
    \/ ConnectUserInsert(p)
    \/ ConnectSelect(p)
    \/ ConnectWrite(p)
    \/ Disconnect(p)

SpecConn == Init /\ [][NextConn]_vars

\* ------------------------------------------ Registry writes that are rejected
\* Step 10, the INSERT INTO deployments rejected by the database: .run()
\* throws, the catch answers.
DeployInsertFails(p) ==
  /\ pc[p] = "d_insert"
  /\ DeployFail(p, [loc[p] EXCEPT !.step = "insert"], "D1_ERROR")
  /\ UNCHANGED <<outside, registry, remote, counters>>

\* Step 11, the INSERT INTO api_keys rejected by the database.
DeployStoreKeyFails(p) ==
  /\ pc[p] = "d_key"
  /\ DeployFail(p, [loc[p] EXCEPT !.step = "key"], "D1_ERROR")
  /\ UNCHANGED <<outside, registry, remote, counters>>

NextKeys ==
  \E p \in {1} :
    \/ Return(p)
    \/ ConnectBegin(p, Customers, {1})
    \/ ConnectUserLookup(p)
    \/ ConnectUserInsert(p)
    \/ ConnectSelect(p)
    \/ ConnectWrite(p)
    \/ DeployBegin(p)
    \/ DeployCreateKV(p)
    \/ DeployUploadWorker(p)
    \/ DeploySecretApiKey(p)
    \/ DeploySecretSiteId(p)
    \/ DeploySecretEndpoint(p)
    \/ DeployAddRoute(p)
    \/ DeploySync(p)
    \/ DeployInsert(p)
    \/ DeployInsertFails(p)
    \/ DeployStoreKey(p)
    \/ DeployStoreKeyFails(p)
    \/ DeployHealth(p)
    \/ DeployReturn(p)
    \/ TeardownBegin(p)
    \/ TeardownRoute(p)
    \/ TeardownWorker(p)
    \/ TeardownKV(p)
    \/ TeardownMark(p)
    \/ TeardownKeys(p)

\* Provisioning and teardown, one request at a time, with the database free
\* to reject either INSERT of a provisioning.
SpecKeys == Init /\ [][NextKeys]_vars

\* --------------------------------------------------- POST /v1/analytics/log
\* ... WHERE key_hash = ?
ApiKeyLookupAnyStatus(keyHash) ==
  {i \in 1..Len(api_keys) : api_keys[i].key_hash = keyHash}

\* SELECT deployment_id FROM api_keys WHERE key_hash = ? AND status = 'active'
ApiKeyLookup(keyHash) ==
  {i \in 1..Len(api_keys) :
     api_keys[i].key_hash = keyHash /\ api_keys[i].status = "active"}

\* The header checks, the key lookup and the body check of a callback with
\* Authorization: Bearer <key>.  The keys are those provisioning issued and
\* one it never issued.  `before` is the number of events logged so far.
AnalyticsVerify(p) ==
  /\ pc[p] = "idle"
  /\ Len(ai_requests) < MaxEvents
  /\ \E apiKey \in 1..(MaxAttempts + 1), siteId \in Sites \cup {NULL},
        path \in Paths, variantServed \in BOOLEAN, complete \in BOOLEAN :
       LET l == [Idle EXCEPT !.op = "log", !.key = apiKey, !.site = siteId,
                             !.path = path,
                             !.content = IF variantServed THEN 1 ELSE 0,
                             !.was = IF complete THEN "complete" ELSE "partial",
                             !.before = Len(ai_requests)] IN
       IF siteId = NULL
         THEN Finish(p, l, 400, FALSE, "Missing X-SITE-ID header", NULL)
       ELSE IF ApiKeyLookup(hashApiKey(apiKey)) = {}
         THEN Finish(p, l, 401, FALSE, "Invalid API key", NULL)
       ELSE \E i \in ApiKeyLookup(hashApiKey(apiKey)) :
              IF ~complete
                THEN Finish(p, [l EXCEPT !.dep = api_keys[i].deployment_id],
                            400, FALSE, "Missing required fields", NULL)
                ELSE Goto(p, [l EXCEPT !.dep = api_keys[i].deployment_id], "a_log")
  /\ UNCHANGED <<outside, registry, remote, counters>>

\* analyticsService.logEvent: INSERT INTO ai_requests.
AnalyticsLogEvent(p) ==
  /\ pc[p] = "a_log"
  /\ ai_requests' = Append(ai_requests,
       [deployment_id |-> loc[p].dep, url_path |-> loc[p].path,
        variant_served |-> loc[p].content])
  /\ Finish(p, loc[p], 200, TRUE, "", NULL)
  /\ UNCHANGED <<outside, users, connections, connSeq, deployments, api_keys,
                 variants, variantSeq, remote, counters>>

NextLog ==
  \E p \in {1} :
    \/ Return(p)
    \/ ConnectBegin(p, Customers, {1})
    \/ ConnectUserLookup(p)
    \/ ConnectUserInsert(p)
    \/ ConnectSelect(p)
    \/ ConnectWrite(p)
    \/ DeployBegin(p)
    \/ DeployCreateKV(p)
    \/ DeployUploadWorker(p)
    \/ DeploySecretApiKey(p)
    \/ DeploySecretSiteId(p)
    \/ DeploySecretEndpoint(p)
    \/ DeployAddRoute(p)
    \/ DeploySync(p)
    \/ DeployInsert(p)
    \/ DeployStoreKey(p)
    \/ DeployHealth(p)
    \/ DeployReturn(p)
    \/ TeardownBegin(p)
    \/ TeardownRoute(p)
    \/ TeardownWorker(p)
    \/ TeardownKV(p)
    \/ TeardownMark(p)
    \/ TeardownKeys(p)
    \/ AnalyticsVerify(p)
    \/ AnalyticsLogEvent(p)

\* Provisioning, teardown and the workers' callbacks, one request at a time.
SpecLog == Init /\ [][NextLog]_vars

\* Two POST /api/deployments of customer 1 served at once, after connects;
\* no variant exists, so the upload loop has no turn.
NextPair ==
  \E p \in Procs :
    \/ Return(p)
    \/ ConnectBegin(p, Customers, {1})
    \/ ConnectUserLookup(p)
    \/ ConnectUserInsert(p)
    \/ ConnectSelect(p)
    \/ ConnectWrite(p)
    \/ DeployBegin(p)
    \/ DeployCreateKV(p)
    \/ DeployUploadWorker(p)
    \/ DeploySecretApiKey(p)
    \/ DeploySecretSiteId(p)
    \/ DeploySecretEndpoint(p)
    \/ DeployAddRoute(p)
    \/ DeploySync(p)
    \/ DeployInsert(p)
    \/ DeployStoreKey(p)
    \/ DeployHealth(p)
    \/ DeployReturn(p)

SpecPair == Init /\ [][NextPair]_vars

\* ------------------------------------------------------------ strictRateLimit
\* maxRequests of strictRateLimit.
strictMaxRequests == 500
\* windowMs: 60 * 60 * 1000
windowMs == 3600000
\* "Strict rate limiting (5 req/hour) on /api/cloudflare/connect"
ConnectRequestsPerHour == 5

\* requests.filter(timestamp => timestamp > windowStart)
FilterWindow(requests, windowStart) ==
  SelectSeq(requests, LAMBDA timestamp : timestamp > windowStart)

\* Half an hour passes between two requests.
ClockTick ==
  /\ limiter.stage = "idle"
  /\ limiter.now < MaxTicks * (windowMs \div 2)
  /\ limiter' = [limiter EXCEPT !.now = @ + (windowMs \div 2)]
  /\ UNCHANGED <<registry, remote, counters, pc, loc, vault, edge>>

\* The middleware up to its first answer: KV_SESSIONS.get, the filter, the
\* limit check, requests.push(now).  A get that throws lets the request
\* through.  The stored list outlives its expirationTtl in the model: by then
\* each of its entries is outside the window and the filter drops it.
RateLimitBegin ==
  /\ limiter.stage = "idle"
  /\ limiter.seen < MaxCalls
  /\ \E userId \in Users, ok \in BOOLEAN :
       LET m == [limiter EXCEPT !.seen = @ + 1, !.user = userId, !.at = limiter.now]
           requests == FilterWindow(limiter.kv[userId], limiter.now - windowMs)
       IN IF ~ok
            THEN limiter' = [m EXCEPT !.stage = "next", !.errors = @ + 1]
          ELSE IF Len(requests) >= strictMaxRequests
            THEN limiter' = [m EXCEPT !.stage = "answered", !.answer = 429]
          ELSE limiter' = [m EXCEPT !.stage = "put",
                                    !.requests = Append(requests, limiter.now)]
  /\ UNCHANGED <<registry, remote, counters, pc, loc, vault, edge>>

\* KV_SESSIONS.put(key, JSON.stringify(requests), ...); a put that throws lets
\* the request through.
RateLimitStore ==
  /\ limiter.stage = "put"
  /\ \E ok \in BOOLEAN :
       limiter' = IF ok
         THEN [limiter EXCEPT !.stage = "next",
                              !.kv[limiter.user] = limiter.requests]
         ELSE [limiter EXCEPT !.stage = "next", !.errors = @ + 1]
  /\ UNCHANGED <<registry, remote, counters, pc, loc, vault, edge>>

\* await next(): the request reaches the connect handler.
RateLimitNext ==
  /\ limiter.stage = "next"
  /\ limiter' = [limiter EXCEPT
       !.stage = "answered",
       !.answer = 200,
       !.admitted = Append(@, [user |-> limiter.user, at |-> limiter.at])]
  /\ UNCHANGED <<registry, remote, counters, pc, loc, vault, edge>>

\* The response is sent.
RateLimitReturn ==
  /\ limiter.stage = "answered"
  /\ limiter' = [limiter EXCEPT !.stage = "idle", !.user = NULL, !.at = 0,
                                !.requests = <<>>, !.answer = NULL]
  /\ UNCHANGED <<registry, remote, counters, pc, loc, vault, edge>>

NextLimiter ==
  \/ ClockTick
  \/ RateLimitBegin
  \/ RateLimitStore
  \/ RateLimitNext
  \/ RateLimitReturn

\* Authenticated requests to POST /api/cloudflare/connect, one at a time.
SpecLimiter == Init /\ [][NextLimiter]_vars

\* ------------------------------------------------------- the deployed worker
\* Text is a sequence of characters.

AI_BOT_PATTERNS ==
  <<<<"G", "P", "T", "B", "o", "t">>,
    <<"C", "h", "a", "t", "G", "P", "T", "-", "U", "s", "e", "r">>,
    <<"C", "l", "a", "u", "d", "e", "-", "W", "e", "b">>,
    <<"C", "l", "a", "u", "d", "e", "B", "o", "t">>,
    <<"a", "n", "t", "h", "r", "o", "p", "i", "c", "-", "a", "i">>,
    <<"G", "o", "o", "g", "l", "e", "-", "E", "x", "t", "e", "n", "d", "e", "d">>,
    <<"G", "o", "o", "g", "l", "e", "O", "t", "h", "e", "r">>,
    <<"P", "e", "r", "p", "l", "e", "x", "i", "t", "y", "B", "o", "t">>,
    <<"P", "e", "r", "p", "l", "e", "x", "i", "t", "y">>,
    <<"A", "p", "p", "l", "e", "b", "o", "t", "-", "E", "x", "t", "e", "n", "d", "e", "d">>,
    <<"Y", "o", "u", "B", "o", "t">>,
    <<"B", "y", "t", "e", "s", "p", "i", "d", "e", "r">>,
    <<"c", "o", "h", "e", "r", "e", "-", "a", "i">>,
    <<"M", "e", "t", "a", "-", "E", "x", "t", "e", "r", "n", "a", "l", "A", "g", "e", "n",
      "t">>,
    <<"O", "A", "I", "-", "S", "e", "a", "r", "c", "h", "B", "o", "t">>>>

\* String.prototype.toLowerCase on the letters A-Z.
LowerOf ==
  [A |-> "a", B |-> "b", C |-> "c", D |-> "d", E |-> "e", F |-> "f", G |-> "g", H |->
    "h", I |-> "i", J |-> "j", K |-> "k", L |-> "l", M |-> "m", N |-> "n", O |-> "o", P
    |-> "p", Q |-> "q", R |-> "r", S |-> "s", T |-> "t", U |-> "u", V |-> "v", W |->
    "w", X |-> "x", Y |-> "y", Z |-> "z"]

toLowerCase(text) ==
  [i \in 1..Len(text) |-> IF text[i] \in DOMAIN LowerOf THEN LowerOf[text[i]]
                          ELSE text[i]]

\* String.prototype.includes
includes(text, part) ==
  \E i \in 0..(Len(text) - Len(part)) : SubSeq(text, i + 1, i + Len(part)) = part

\* Any user agent with "bot" in it.
isAIBotLoose(userAgent) ==
  includes(toLowerCase(userAgent), <<"b", "o", "t">>)

isAIBot(userAgent) ==
  IF userAgent = <<>> THEN FALSE
  ELSE \E k \in 1..Len(AI_BOT_PATTERNS) :
         includes(toLowerCase(userAgent), toLowerCase(AI_BOT_PATTERNS[k]))

\* The first pattern that matches, or Unknown.
identifyBot(userAgent) ==
  LET matching == {k \in 1..Len(AI_BOT_PATTERNS) :
                     includes(toLowerCase(userAgent), toLowerCase(AI_BOT_PATTERNS[k]))}
  IN IF userAgent = <<>> \/ matching = {} THEN <<"U", "n", "k", "n", "o", "w", "n">>
     ELSE AI_BOT_PATTERNS[CHOOSE k \in matching : \A o \in matching : k <= o]

\* The characters encodeURIComponent leaves as they are.
Unreserved ==
  {"a", "b", "c", "d", "e", "f", "g", "h", "i", "j", "k", "l", "m", "n", "o", "p", "q",
    "r", "s", "t", "u", "v", "w", "x", "y", "z", "A", "B", "C", "D", "E", "F", "G", "H",
    "I", "J", "K", "L", "M", "N", "O", "P", "Q", "R", "S", "T", "U", "V", "W", "X", "Y",
    "Z", "0", "1", "2", "3", "4", "5", "6", "7", "8", "9", "-", "_", ".", "!", "~", "*",
    "'", "(", ")"}

\* encodeURIComponent over the characters of the paths used: every other
\* character becomes % and the two hex digits of its code.
RECURSIVE encodeURIComponent(_)
encodeURIComponent(text) ==
  IF text = <<>> THEN <<>>
  ELSE (CASE text[1] \in Unreserved -> <<text[1]>>
          [] text[1] = "/" -> <<"%", "2", "F">>
          [] text[1] = "%" -> <<"%", "2", "5">>
          [] text[1] = " " -> <<"%", "2", "0">>)
       \o encodeURIComponent(Tail(text))

\* User agents of AI crawlers, as the tests of isAIBot list them.
AIBotAgents ==
  {<<"C", "l", "a", "u", "d", "e", "B", "o", "t", "/", "1", ".", "0">>,
   <<"g", "p", "t", "b", "o", "t", "/", "1", ".", "0">>,
   <<"G", "P", "T", "B", "O", "T", "/", "1", ".", "0">>,
   <<"M", "o", "z", "i", "l", "l", "a", "/", "5", ".", "0", " ", "(", "c", "o", "m", "p",
     "a", "t", "i", "b", "l", "e", ";", " ", "G", "o", "o", "g", "l", "e", "-", "E", "x",
     "t", "e", "n", "d", "e", "d", ")">>}

\* A browser, a regular crawler, and no user-agent header.
OtherAgents ==
  {<<"M", "o", "z", "i", "l", "l", "a", "/", "5", ".", "0", " ", "(", "W", "i", "n", "d",
     "o", "w", "s", " ", "N", "T", " ", "1", "0", ".", "0", ";", " ", "W", "i", "n", "6",
     "4", ";", " ", "x", "6", "4", ")", " ", "A", "p", "p", "l", "e", "W", "e", "b", "K",
     "i", "t", "/", "5", "3", "7", ".", "3", "6">>,
   <<"M", "o", "z", "i", "l", "l", "a", "/", "5", ".", "0", " ", "(", "c", "o", "m", "p",
     "a", "t", "i", "b", "l", "e", ";", " ", "G", "o", "o", "g", "l", "e", "b", "o", "t",
     "/", "2", ".", "1", ";", " ", "+", "h", "t", "t", "p", ":", "/", "/", "w", "w", "w",
     ".", "g", "o", "o", "g", "l", "e", ".", "c", "o", "m", "/", "b", "o", "t", ".", "h",
     "t", "m", "l", ")">>,
   <<>>}

\* url.pathname of the requests: /, /a and /a%20b.
EdgePaths ==
  {<<"/">>, <<"/", "a">>, <<"/", "a", "%", "2", "0", "b">>}

\* The keys of the VARIANTS namespace looked at: the paths as they are and as
\* encodeURIComponent writes them.
EdgeKeys ==
  {<<"/">>, <<"/", "a">>} \cup {encodeURIComponent(path) : path \in EdgePaths}

\* The VARIANTS namespace: under each key nothing, an empty value or a page.
EdgeStores ==
  {store \in SUBSET (EdgeKeys \X {"", "<html>"}) :
     \A e \in store, o \in store : e[1] = o[1] => e = o}

\* env.VARIANTS.get(key): null when the key is absent.
VariantsGet(store, key) ==
  IF \E e \in store : e[1] = key
    THEN [null |-> FALSE, text |-> (CHOOSE e \in store : e[1] = key)[2]]
    ELSE [null |-> TRUE, text |-> ""]

NoRequest == [userAgent |-> <<>>, path |-> <<>>]

NoResponse == [by |-> "", body |-> "", botType |-> <<>>, request |-> NoRequest]

InitEdge ==
  /\ Fresh
  /\ limiter = NoLimiter
  /\ vault = NoVault
  /\ \E store \in EdgeStores : edge = [NoEdge EXCEPT !.stage = "idle", !.store = store]

\* fetch(request, env, ctx) up to its return.  reads counts VARIANTS.get
\* calls; waiting holds what ctx.waitUntil was given.
EdgeFetch ==
  /\ edge.stage = "idle"
  /\ \E userAgent \in AIBotAgents \cup OtherAgents, path \in EdgePaths :
       LET request == [userAgent |-> userAgent, path |-> path]
           variant == VariantsGet(edge.store, encodeURIComponent(path))
           origin == [by |-> "origin", body |-> "", botType |-> <<>>,
                      request |-> request]
           e == [edge EXCEPT !.stage = "responded", !.request = request]
       IN IF isAIBot(userAgent)
            THEN IF ~variant.null /\ variant.text # ""
                   THEN edge' = [e EXCEPT
                          !.reads = 1,
                          !.response = [by |-> "AXP", body |-> variant.text,
                                        botType |-> identifyBot(userAgent),
                                        request |-> NoRequest],
                          !.waiting = <<[path |-> path, variantServed |-> TRUE]>>]
                   ELSE edge' = [e EXCEPT
                          !.reads = 1,
                          !.response = origin,
                          !.waiting = <<[path |-> path, variantServed |-> FALSE]>>]
            ELSE edge' = [e EXCEPT !.response = origin]
  /\ UNCHANGED <<registry, remote, counters, pc, loc, limiter, vault>>

\* A callback that is awaited and has no catch: its throw replaces the response.
logAnalyticsAwaited(e, ok) ==
  IF ok
    THEN [e EXCEPT !.waiting = Tail(@), !.posted = Append(@, Head(e.waiting))]
    ELSE [e EXCEPT !.waiting = Tail(@),
                   !.response = [by |-> "error", body |-> "", botType |-> <<>>,
                                 request |-> NoRequest]]

\* logAnalytics, run by ctx.waitUntil: try { await fetch(POST) } catch { log }.
logAnalytics(e, ok) ==
  [e EXCEPT !.waiting = Tail(@),
            !.posted = IF ok THEN Append(@, Head(e.waiting)) ELSE @]

\* logAnalytics: the POST to /v1/analytics/log; a fetch that throws is logged.
EdgeLogAnalytics ==
  /\ edge.stage = "responded"
  /\ edge.waiting # <<>>
  /\ \E ok \in BOOLEAN : edge' = logAnalytics(edge, ok)
  /\ UNCHANGED <<registry, remote, counters, pc, loc, limiter, vault>>

\* The invocation ends.
EdgeReturn ==
  /\ edge.stage = "responded"
  /\ edge.waiting = <<>>
  /\ edge' = [NoEdge EXCEPT !.stage = "idle", !.store = edge.store,
                            !.rows = edge.rows, !.decodes = edge.decodes,
                            !.earlier = edge.earlier]
  /\ UNCHANGED <<registry, remote, counters, pc, loc, limiter, vault>>

NextEdge ==
  \/ EdgeFetch
  \/ EdgeLogAnalytics
  \/ EdgeReturn

\* One worker over every content of its namespace, one request at a time.
SpecEdge == InitEdge /\ [][NextEdge]_vars

\* -------------------------------------------- encryptToken / decryptToken alone
\* Key bytes: a 256-bit key, one that differs from it in its last byte, the
\* key followed by "\r\n" (34 bytes), a 128-bit key, and three bytes.
VaultKeyBytes ==
  {[i \in 1..KeyBytes |-> 7],
   [i \in 1..KeyBytes |-> IF i = KeyBytes THEN 8 ELSE 7],
   [i \in 1..KeyBytes |-> 7] \o <<13, 10>>,
   [i \in 1..16 |-> 7],
   <<7, 7, 7>>}

\* Key strings: the base64 of the bytes, bare or with white space around it.
VaultKeys ==
  {[padded |-> w, base64 |-> b] : w \in BOOLEAN, b \in VaultKeyBytes}

\* Plaintexts: "A", "B\u00e9", the euro sign, and "A" followed by U+1F600 (a
\* surrogate pair).
VaultTexts ==
  {<<65>>, <<66, 233>>, <<8364>>, <<65, 55357, 56832>>}

\* A generator stuck on its first output.
RandomStuck(drawn) ==
  1

\* The output of crypto.getRandomValues after `drawn` earlier ones: fresh.
RandomOutput(drawn) ==
  drawn + 1

\* The blob with its i-th byte changed; the ciphertext and the tag count as
\* one position each.
TamperByte(blob, i) ==
  LET bytes == base64ToArrayBuffer(blob)
  IN arrayBufferToBase64(
       [bytes EXCEPT ![i] = IF i <= IvBytes THEN bytes[i] + 256
                            ELSE [bytes[i] EXCEPT !.flipped = TRUE]])

InitVault ==
  /\ Fresh
  /\ limiter = NoLimiter
  /\ edge = NoEdge
  /\ \E P \in VaultTexts, K \in VaultKeys, K2 \in VaultKeys :
       vault = [NoVault EXCEPT !.stage = "start", !.plaintext = P, !.key = K,
                               !.other = K2]

\* encryptToken(plaintext, key); importKey throws on a key of a wrong length.
VaultEncrypt ==
  /\ vault.stage = "start"
  /\ IF importKey(vault.key)
       THEN vault' = [vault EXCEPT
              !.stage = "one",
              !.drawn = @ + 1,
              !.first = encryptToken(vault.plaintext, vault.key,
                                     RandomOutput(vault.drawn))]
       ELSE vault' = [vault EXCEPT !.stage = "threw"]
  /\ UNCHANGED <<registry, remote, counters, pc, loc, limiter, edge>>

\* encryptToken(plaintext, key) once more.
VaultEncryptAgain ==
  /\ vault.stage = "one"
  /\ vault' = [vault EXCEPT
       !.stage = "two",
       !.drawn = @ + 1,
       !.second = encryptToken(vault.plaintext, vault.key,
                               RandomOutput(vault.drawn))]
  /\ UNCHANGED <<registry, remote, counters, pc, loc, limiter, edge>>

\* One byte of the first blob is changed before it is handed back.
VaultTamper ==
  /\ vault.stage \in {"one", "two"}
  /\ \E i \in 1..Len(base64ToArrayBuffer(vault.first)) :
       vault' = [vault EXCEPT !.stage = "tampered", !.touched = i,
                              !.given = TamperByte(vault.first, i)]
  /\ UNCHANGED <<registry, remote, counters, pc, loc, limiter, edge>>

\* decryptToken(blob, key string): of a blob as encryptToken returned it or of
\* the changed one, with the encrypting key string or the other one.
VaultDecrypt ==
  /\ vault.stage \in {"one", "two", "tampered"}
  /\ \E blob \in IF vault.stage = "tampered" THEN {vault.given}
                 ELSE IF vault.stage = "two" THEN {vault.first, vault.second}
                 ELSE {vault.first},
        K \in {vault.key, vault.other} :
       vault' = [vault EXCEPT !.stage = "opened", !.given = blob, !.with = K,
                              !.opened = decryptToken(blob, K)]
  /\ UNCHANGED <<registry, remote, counters, pc, loc, limiter, edge>>

NextVault ==
  \/ VaultEncrypt
  \/ VaultEncryptAgain
  \/ VaultTamper
  \/ VaultDecrypt

\* The two functions applied to every text and pair of key strings.
SpecVault == InitVault /\ [][NextVault]_vars

\* ------------------------------------------------------------------ properties
\* SELECT ... FROM api_keys WHERE deployment_id = ?: the indices of the rows.
KeysOf(deploymentId) ==
  {k \in 1..Len(api_keys) : api_keys[k].deployment_id = deploymentId}

\* The steps of deploy that come before the INSERT INTO deployments.
BeforeInsert ==
  {"connection", "decrypt", "kv", "upload", "CLIENT_API_KEY", "SITE_ID",
   "API_ENDPOINT", "route"}

\* The rows a provisioning attempt has written.
RowsOfAttempt(a) ==
  {<<"deployments", i>> : i \in {j \in 1..Len(deployments) : deployments[j].attempt = a}}
    \cup {<<"api_keys", k>> : k \in {j \in 1..Len(api_keys) : api_keys[j].attempt = a}}

\* The user's active variants, of one deployment or (NULL) of all.
ActiveVariants(userId, deploymentId) ==
  {v \in variants : /\ v.user_id = userId
                    /\ v.status = "active"
                    /\ (deploymentId # NULL => v.deployment_id = deploymentId)}

\* C1: a provisioning attempt that fails at a step before the Deployment row
\* insert (connection lookup, decryption, namespace creation, worker upload,
\* one of the three secrets, route creation) has written no row of
\* deployments and no row of api_keys; nor has an attempt still on its way
\* to the insert.
C1_FailureBeforeInsertWritesNoRow ==
  \A p \in Procs :
    /\ (/\ pc[p] = "done"
        /\ loc[p].op = "deploy"
        /\ ~loc[p].result.success
        /\ loc[p].step \in BeforeInsert)
         => RowsOfAttempt(loc[p].attempt) = {}
    /\ pc[p] \in {"d_kv", "d_upload", "d_sec1", "d_sec2", "d_sec3", "d_route",
                  "d_sync", "d_put"}
         => RowsOfAttempt(loc[p].attempt) = {}

\* An attempt that created its namespace and its worker and then failed at
\* the route, after an earlier attempt of the same customer went through.
C1_Witness ==
  \E p \in Procs :
    /\ pc[p] = "done"
    /\ loc[p].op = "deploy"
    /\ ~loc[p].result.success
    /\ loc[p].step = "route"
    /\ loc[p].attempt \in kvNamespaces
    /\ workers[loc[p].site].kv = loc[p].kv
    /\ Len(deployments) = 1
    /\ RowsOfAttempt(loc[p].attempt) = {}

\* C2: every Deployment row whose status is active has a non-null
\* worker_name and a non-null kv_namespace_id.
C2_ActiveRowsNameWorkerAndStore ==
  \A i \in 1..Len(deployments) :
    deployments[i].status = "active"
      => deployments[i].worker_name # NULL /\ deployments[i].kv_namespace_id # NULL

\* An active row written by an attempt whose route came back without an id,
\* next to an attempt that the schema turned away for its missing namespace id.
C2_Witness ==
  /\ \E i \in 1..Len(deployments) :
       deployments[i].status = "active" /\ deployments[i].route_id = NULL
  /\ \E p \in Procs :
       /\ pc[p] = "done"
       /\ loc[p].op = "deploy"
       /\ loc[p].step = "insert"
       /\ loc[p].kv = NULL

\* C3: a provisioning request of a customer who has no Connection row, or
\* only disconnected ones, ends at once with the no-connection error, having
\* issued no remote call, written no Deployment row and changed nothing on
\* the platform.
C3_NoConnectionNoProvisioning ==
  [][\A p \in Procs :
       (/\ pc[p] = "idle"
        /\ pc'[p] # "idle"
        /\ loc'[p].op = "deploy"
        /\ ~\E r \in connections : r.user_id = loc'[p].user /\ r.status = "active")
         => /\ pc'[p] = "done"
            /\ ~loc'[p].result.success
            /\ loc'[p].result.error = "No active Cloudflare connection found"
            /\ loc'[p].calls = 0
            /\ deployments' = deployments
            /\ api_keys' = api_keys
            /\ remote' = remote]_vars

\* The customer disconnected after provisioning once; the next provisioning
\* request was refused.
C3_Witness ==
  \E p \in Procs :
    /\ pc[p] = "done"
    /\ loc[p].op = "deploy"
    /\ loc[p].result.error = "No active Cloudflare connection found"
    /\ \E r \in connections : r.user_id = loc[p].user /\ r.status = "disconnected"
    /\ Len(deployments) = 1

\* C4: a teardown of a deployment that exists and belongs to the caller ends
\* without error, with the Deployment row deleted and every api_keys row of
\* the deployment inactive, whichever of the three remote deletions failed.
C4_TeardownAlwaysMarksDeleted ==
  \A p \in Procs :
    (/\ pc[p] = "done"
     /\ loc[p].op = "teardown"
     /\ loc[p].dep \in 1..Len(deployments)
     /\ deployments[loc[p].dep].user_id = loc[p].user)
      => /\ loc[p].result.code = 200
         /\ deployments[loc[p].dep].status = "deleted"
         /\ \A k \in KeysOf(loc[p].dep) : api_keys[k].status = "inactive"

\* A teardown of an active deployment all three of whose deletions failed
\* while the route, the worker and the namespace still exist.
C4_Witness ==
  \E p \in Procs :
    /\ pc[p] = "done"
    /\ loc[p].op = "teardown"
    /\ loc[p].was = "active"
    /\ loc[p].failed = 3
    /\ loc[p].calls = 3
    /\ loc[p].kv \in kvNamespaces
    /\ \E r \in routes : r.id = loc[p].route
    /\ \E s \in Sites : WorkerName(s) = loc[p].site /\ workers[s].exists
    /\ deployments[loc[p].dep].status = "deleted"
    /\ KeysOf(loc[p].dep) # {}

\* C5: a resync of an active deployment of the caller with T active variants,
\* F of whose remote writes fail, answers without error with exactly T - F.
C5_ResyncReturnsSuccesses ==
  \A p \in Procs :
    (/\ pc[p] = "done"
     /\ loc[p].op = "resync"
     /\ loc[p].dep \in 1..Len(deployments)
     /\ deployments[loc[p].dep].user_id = loc[p].user
     /\ deployments[loc[p].dep].status = "active")
      => /\ loc[p].result.success
         /\ loc[p].calls = Cardinality(ActiveVariants(loc[p].user, loc[p].dep))
         /\ loc[p].result.value =
              Cardinality(ActiveVariants(loc[p].user, loc[p].dep)) - loc[p].failed

\* Two variants, one of whose writes failed: the answer is 1.
C5_Witness ==
  \E p \in Procs :
    /\ pc[p] = "done"
    /\ loc[p].op = "resync"
    /\ Cardinality(ActiveVariants(loc[p].user, loc[p].dep)) = 2
    /\ loc[p].failed = 1
    /\ loc[p].result.success
    /\ loc[p].result.value = 1

C7_OneVariantRowPerPath ==
  /\ \A v, w \in variants :
       (v.deployment_id = w.deployment_id /\ v.url_path = w.url_path) => v = w
  /\ \A p \in Procs :
       (/\ loc[p].op = "variant"
        /\ pc[p] \in {"v_put", "done"}
        /\ loc[p].result.code # 404) =>
         /\ loc[p].before # NULL =>
              /\ loc[p].step # "unique"
              /\ loc[p].variantId = loc[p].before
              /\ \E v \in variants :
                   /\ v.id = loc[p].before
                   /\ v.deployment_id = loc[p].dep
                   /\ v.url_path = loc[p].path
                   /\ v.content = loc[p].content
                   /\ v.content_hash = hashContent(loc[p].content)
              /\ (pc[p] = "done" /\ loc[p].result.success)
                   => loc[p].result.value = loc[p].before
         /\ loc[p].variantId # NULL =>
              /\ Cardinality(VariantsAt(loc[p].dep, loc[p].path)) = 1
              /\ \A v \in VariantsAt(loc[p].dep, loc[p].path) : v.id = loc[p].variantId

\* The second create for a path, with other content: same row, new hash.
C7_Witness ==
  \E p \in Procs :
    /\ pc[p] = "done"
    /\ loc[p].op = "variant"
    /\ loc[p].result.success
    /\ loc[p].before # NULL
    /\ loc[p].old # loc[p].content
    /\ loc[p].result.value = loc[p].before
    /\ variantSeq = 1
    /\ \E v \in variants : v.id = loc[p].before
                           /\ v.content_hash = hashContent(loc[p].content)

\* C8: a teardown of a deployment that was already deleted ends without
\* error and leaves the row deleted and its api_keys rows inactive.
C8_SecondTeardownSucceeds ==
  \A p \in Procs :
    (/\ pc[p] = "done"
     /\ loc[p].op = "teardown"
     /\ loc[p].was = "deleted"
     /\ deployments[loc[p].dep].user_id = loc[p].user)
      => /\ loc[p].result.code = 200
         /\ loc[p].result.success
         /\ deployments[loc[p].dep].status = "deleted"
         /\ \A k \in KeysOf(loc[p].dep) : api_keys[k].status = "inactive"

\* The second teardown found the route, the worker and the namespace gone:
\* its three deletions failed and it answered 200.
C8_Witness ==
  \E p \in Procs :
    /\ pc[p] = "done"
    /\ loc[p].op = "teardown"
    /\ loc[p].was = "deleted"
    /\ loc[p].failed = 3
    /\ loc[p].kv \notin kvNamespaces
    /\ ~\E r \in routes : r.id = loc[p].route
    /\ \A s \in Sites : ~workers[s].exists
    /\ loc[p].result.code = 200
    /\ KeysOf(loc[p].dep) # {}

\* C9: every customer has at most one Connection row with status active,
\* whatever connect and disconnect requests were served, two at a time
\* included.
C9_AtMostOneActiveConnection ==
  \A u \in Users :
    Cardinality({r \in connections : r.user_id = u /\ r.status = "active"}) <= 1

\* C10: there is at most one active Deployment row per (user_id, worker_name).
C10_AtMostOneActiveDeploymentPerSite ==
  \A i, j \in 1..Len(deployments) :
    (/\ deployments[i].status = "active"
     /\ deployments[j].status = "active"
     /\ deployments[i].user_id = deployments[j].user_id
     /\ deployments[i].worker_name = deployments[j].worker_name)
      => i = j

C15_OtherKeyOrChangedBlobFails ==
  (vault.stage = "opened" /\ (vault.with # vault.key \/ vault.touched # 0))
    => ~vault.opened.ok

C17_ConnectionRowsStayAndAreReused ==
  [][/\ \A r \in connections :
          \E n \in connections' : n.id = r.id /\ n.user_id = r.user_id
     /\ \A p \in Procs :
          /\ (pc[p] = "idle" /\ pc'[p] = "done" /\ loc'[p].op = "disconnect")
               => connections' =
                    {IF r.user_id = loc'[p].user
                       THEN [id |-> r.id, user_id |-> r.user_id,
                             account_id |-> r.account_id,
                             token_encrypted |-> r.token_encrypted,
                             status |-> "disconnected"]
                       ELSE r : r \in connections}
          /\ (/\ pc[p] = "c_sel"
              /\ pc'[p] = "c_write"
              /\ \E r \in connections : r.user_id = loc[p].user)
               => \E r \in connections :
                    r.user_id = loc[p].user /\ loc'[p].existing = r.id
          /\ (pc[p] = "c_write" /\ pc'[p] = "done" /\ loc[p].existing # NULL)
               => /\ {n.id : n \in connections'} = {r.id : r \in connections}
                  /\ Cardinality(connections') = Cardinality(connections)
                  /\ connSeq' = connSeq
                  /\ \A n \in connections' :
                       IF n.user_id = loc[p].user
                         THEN /\ n.account_id = AccountOf(loc[p].token)
                              /\ n.token_encrypted = loc[p].blob
                              /\ n.status = "active"
                         ELSE n \in connections]_vars

\* A reconnection done: the customer's only row is the one found, it was
\* created by an earlier request, and it carries the new credential.
C17_Witness ==
  \E p \in Procs :
    /\ pc[p] = "done"
    /\ loc[p].op = "connect"
    /\ loc[p].result.code = 200
    /\ loc[p].existing # NULL
    /\ \A q \in Procs : q # p => pc[q] = "idle"
    /\ \E r \in connections :
         /\ r.id = loc[p].existing
         /\ r.token_encrypted = loc[p].blob
         /\ r.status = "active"
         /\ \A n \in connections : n.user_id = r.user_id => n = r

C13_FailuresLookAlike ==
  \A p \in Procs, q \in Procs :
    (/\ pc[p] = "done" /\ loc[p].op = "deploy" /\ ~loc[p].result.success
     /\ pc[q] = "done" /\ loc[q].op = "deploy" /\ ~loc[q].result.success
     /\ loc[p].attempt # NULL
     /\ loc[q].attempt # NULL
     /\ loc[p].user = loc[q].user
     /\ loc[p].site = loc[q].site
     /\ loc[p].zone = loc[q].zone)
      => loc[p].result = loc[q].result

\* C11: whenever no provisioning or teardown is in progress, every active
\* Deployment row has exactly one active Secret row, and its digest is the
\* hash of the CLIENT_API_KEY its provisioning set on the worker.
C11_ActiveDeploymentHasItsSecret ==
  (\A p \in {1} : loc[p].op \in {"deploy", "teardown"} => pc[p] = "done")
    => \A d \in 1..Len(deployments) :
         deployments[d].status = "active"
           => /\ Cardinality({i \in 1..Len(api_keys) :
                                /\ api_keys[i].deployment_id = d
                                /\ api_keys[i].status = "active"}) = 1
              /\ \A i \in 1..Len(api_keys) :
                   (api_keys[i].deployment_id = d /\ api_keys[i].status = "active")
                     => api_keys[i].key_hash = hashApiKey(deployments[d].attempt)

\* C12: a well-formed callback bearing the secret of a deployment is answered
\* 200 and logs one event against that deployment while the deployment is
\* active; once the deployment has been torn down it is answered 401 and
\* logs nothing.
C12_SecretWorksUntilTeardown ==
  \A p \in {1} :
    (/\ pc[p] = "done"
     /\ loc[p].op = "log"
     /\ loc[p].site # NULL
     /\ loc[p].was = "complete")
      => \A i \in 1..Len(api_keys) :
           api_keys[i].key_hash = hashApiKey(loc[p].key)
             => LET d == api_keys[i].deployment_id IN
                /\ deployments[d].status = "active"
                     => /\ loc[p].result.code = 200
                        /\ Len(ai_requests) = loc[p].before + 1
                        /\ ai_requests[Len(ai_requests)].deployment_id = d
                /\ deployments[d].status = "deleted"
                     => /\ loc[p].result.code = 401
                        /\ Len(ai_requests) = loc[p].before

\* A callback rejected after the teardown, bearing the secret under which an
\* event was logged while the deployment was active.
C12_Witness ==
  /\ pc[1] = "done"
  /\ loc[1].op = "log"
  /\ loc[1].was = "complete"
  /\ loc[1].site # NULL
  /\ loc[1].result.code = 401
  /\ Len(ai_requests) = loc[1].before
  /\ \E i \in 1..Len(api_keys) :
       /\ api_keys[i].key_hash = hashApiKey(loc[1].key)
       /\ deployments[api_keys[i].deployment_id].status = "deleted"
       /\ \E e \in 1..Len(ai_requests) :
            ai_requests[e].deployment_id = api_keys[i].deployment_id

\* C18: with KV_SESSIONS answering every call, no user has more than 5
\* requests to POST /api/cloudflare/connect reach the handler within one hour.
C18_AtMostFivePerHour ==
  limiter.errors = 0
    => \A e \in 1..Len(limiter.admitted) :
         Cardinality({i \in 1..Len(limiter.admitted) :
                        /\ limiter.admitted[i].user = limiter.admitted[e].user
                        /\ limiter.admitted[i].at >= limiter.admitted[e].at
                        /\ limiter.admitted[i].at < limiter.admitted[e].at + windowMs})
           <= ConnectRequestsPerHour

\* C19: the worker answers with a stored variant only to a user agent that
\* matches an AI-bot pattern and only with the non-empty value stored under
\* the key of the request path; a request of any other user agent goes to the
\* origin as it came, with no read of the store and no analytics callback.
C19_VariantsOnlyForBots ==
  edge.stage = "responded"
    => /\ edge.response.by = "AXP"
            => /\ edge.request.userAgent \in AIBotAgents
               /\ \E e \in edge.store :
                    /\ e[1] = encodeURIComponent(edge.request.path)
                    /\ e[2] # ""
                    /\ edge.response.body = e[2]
       /\ edge.request.userAgent \in OtherAgents
            => /\ edge.response.by = "origin"
               /\ edge.response.request = edge.request
               /\ edge.reads = 0
               /\ edge.waiting = <<>>
               /\ edge.posted = <<>>

\* A variant served to a crawler that announces itself in lower case, for a
\* path whose key differs from the path.
C19_Witness ==
  /\ edge.stage = "responded"
  /\ edge.response.by = "AXP"
  /\ edge.request.userAgent = <<"g", "p", "t", "b", "o", "t", "/", "1", ".", "0">>
  /\ edge.request.path = <<"/", "a">>
  /\ edge.response.body = "<html>"
  /\ edge.posted = <<[path |-> <<"/", "a">>, variantServed |-> TRUE]>>

\* C21: a teardown that found its deployment attempts the route deletion
\* (when the row has a route id), the worker deletion and the key-value store
\* deletion once each, in this order, whether or not any of them failed.
C21_EachDeletionAttemptedOnce ==
  [][\A p \in {1} :
       /\ (pc[p] = "t_route" /\ pc'[p] # pc[p])
            => /\ pc'[p] = "t_worker"
               /\ loc'[p].calls = loc[p].calls + (IF loc[p].route = NULL THEN 0 ELSE 1)
       /\ (pc[p] = "t_worker" /\ pc'[p] # pc[p])
            => /\ pc'[p] = "t_kv"
               /\ loc'[p].calls = loc[p].calls + 1
       /\ (pc[p] = "t_kv" /\ pc'[p] # pc[p])
            => /\ pc'[p] = "t_mark"
               /\ loc'[p].calls = loc[p].calls + 1
       /\ (pc[p] = "t_keys" /\ pc'[p] = "done")
            => loc'[p].calls = (IF loc[p].route = NULL THEN 2 ELSE 3)]_vars

\* The route deletion failed and the route is still there; the worker and
\* the key-value store were deleted all the same.
C21_Witness ==
  /\ pc[1] = "done"
  /\ loc[1].op = "teardown"
  /\ loc[1].was = "active"
  /\ loc[1].calls = 3
  /\ loc[1].failed = 1
  /\ \E r \in routes : r.id = loc[1].route
  /\ \A s \in Sites : WorkerName(s) = loc[1].site => ~workers[s].exists
  /\ loc[1].kv \notin kvNamespaces

\* C22: uploadExistingVariants, in a provisioning and in a resync, selects
\* each active variant once and attempts the put of each selected variant
\* once: every turn of the loop takes the next variant and makes one remote
\* call, and goes on to the variant after it whether the put failed or not.
C22_EveryVariantPutOnce ==
  [][\A p \in {1} :
       /\ (pc[p] \in {"d_sync", "u_sel"} /\ pc'[p] # pc[p])
            => LET selected == ActiveVariants(loc[p].user,
                                 IF pc[p] = "u_sel" THEN loc[p].dep ELSE NULL)
               IN /\ Len(loc'[p].todo) = Cardinality(selected)
                  /\ loc'[p].total = Cardinality(selected)
                  /\ \A v \in selected :
                       \E i \in 1..Len(loc'[p].todo) :
                         /\ loc'[p].todo[i].url_path = v.url_path
                         /\ loc'[p].todo[i].content = v.content
                  /\ pc'[p] \in (IF selected = {} THEN {"d_insert", "u_touch"}
                                 ELSE {"d_put", "u_put"})
       /\ (pc[p] \in {"d_put", "u_put"} /\ loc'[p].todo # loc[p].todo)
            => /\ loc'[p].todo = Tail(loc[p].todo)
               /\ loc'[p].calls = loc[p].calls + 1
               /\ loc'[p].count + loc'[p].failed = loc[p].count + loc[p].failed + 1
               /\ pc'[p] = (IF loc'[p].todo # <<>> THEN pc[p]
                            ELSE IF pc[p] = "d_put" THEN "d_insert" ELSE "u_touch")]_vars

\* A resync of two variants whose first put failed and whose second put
\* wrote the content of the second variant.
C22_Witness ==
  /\ pc[1] = "done"
  /\ loc[1].op = "resync"
  /\ loc[1].total = 2
  /\ loc[1].calls = 2
  /\ loc[1].failed = 1
  /\ loc[1].kv \in kvNamespaces
  /\ \E v \in ActiveVariants(loc[1].user, loc[1].dep),
        w \in ActiveVariants(loc[1].user, loc[1].dep) :
       /\ v.id < w.id
       /\ kvData[loc[1].kv][v.url_path] # v.content
       /\ kvData[loc[1].kv][w.url_path] = w.content

\* C23: no step of a provisioning attempt removes a key-value store, a worker
\* or a route, and when the attempt returns a failure everything its
\* completed steps created is still in the customer's account: the store
\* after createKVNamespace, the worker after uploadWorker, CLIENT_API_KEY
\* after the first secret, the route after addWorkerRoute.
C23_FailedProvisioningLeavesResources ==
  [][\A p \in {1} :
       (loc'[p].op = "deploy" /\ pc'[p] # pc[p])
         => /\ kvNamespaces \subseteq kvNamespaces'
            /\ routes \subseteq routes'
            /\ \A s \in Sites : workers[s].exists => workers'[s].exists
            /\ (pc'[p] = "done" /\ ~loc'[p].result.success /\ loc'[p].attempt # NULL)
                 => LET l == loc'[p] IN
                    /\ l.step \in {"upload", "CLIENT_API_KEY", "SITE_ID",
                                   "API_ENDPOINT", "route", "insert"}
                         => l.attempt \in kvNamespaces'
                    /\ l.step \in {"CLIENT_API_KEY", "SITE_ID", "API_ENDPOINT",
                                   "route", "insert"}
                         => workers'[l.site].exists
                    /\ l.step \in {"SITE_ID", "API_ENDPOINT", "route", "insert"}
                         => workers'[l.site].CLIENT_API_KEY = l.key
                    /\ l.step = "insert"
                         => \E r \in routes' : r.id = l.attempt /\ r.zone = l.zone]_vars

\* An attempt whose addWorkerRoute was rejected has returned its failure; its
\* store, its worker and its secret are in the account, and no row was written.
C23_Witness ==
  /\ pc[1] = "done"
  /\ loc[1].op = "deploy"
  /\ ~loc[1].result.success
  /\ loc[1].step = "route"
  /\ loc[1].calls = 6
  /\ loc[1].attempt \in kvNamespaces
  /\ workers[loc[1].site].exists
  /\ workers[loc[1].site].CLIENT_API_KEY = loc[1].key
  /\ RowsOfAttempt(loc[1].attempt) = {}

\* C25: a provisioning starts at createKVNamespace carrying nothing from
\* earlier attempts; one that follows a failed attempt and succeeds has made
\* a key-value store and a secret of its own, and its active Deployment row,
\* its Secret row and the worker name the store, route and key that this
\* attempt made, none that the failed attempt made.
C25_RetryUsesFreshResources ==
  [][\A p \in {1} :
       /\ (pc[p] = "idle" /\ pc'[p] = "d_kv")
            => /\ loc'[p].kv = NULL
               /\ loc'[p].key = NULL
               /\ loc'[p].route = NULL
               /\ loc'[p].dep = NULL
               /\ loc'[p].calls = 0
               /\ loc'[p].attempt \notin kvNamespaces
               /\ \A i \in 1..Len(deployments) : deployments[i].attempt # loc'[p].attempt
       /\ (/\ pc[p] = "d_return"
           /\ pc'[p] = "done"
           /\ loc[p].attempt > 1
           /\ \A i \in 1..Len(deployments) :
                deployments[i].attempt # loc[p].attempt - 1)
            => LET l == loc'[p]
                   row == deployments'[l.result.value.deploymentId]
               IN /\ l.result.success
                  /\ row.status = "active"
                  /\ row.attempt = l.attempt
                  /\ row.kv_namespace_id = l.attempt
                  /\ row.kv_namespace_id # l.attempt - 1
                  /\ row.kv_namespace_id \in kvNamespaces'
                  /\ row.route_id \in {NULL, l.attempt}
                  /\ l.key = l.attempt
                  /\ workers'[l.site].kv = row.kv_namespace_id
                  /\ workers'[l.site].CLIENT_API_KEY = l.key
                  /\ \E k \in KeysOf(l.result.value.deploymentId) :
                       api_keys'[k].key_hash = hashApiKey(l.key)]_vars

\* The second attempt succeeded after the first failed at addWorkerRoute and
\* left its store behind: the row names the second store.
C25_Witness ==
  /\ pc[1] = "done"
  /\ loc[1].op = "deploy"
  /\ loc[1].result.success
  /\ loc[1].attempt = 2
  /\ \A i \in 1..Len(deployments) : deployments[i].attempt # 1
  /\ 1 \in kvNamespaces
  /\ deployments[loc[1].result.value.deploymentId].kv_namespace_id = 2
  /\ workers[loc[1].site].kv = 2

\* C24: nothing keeps two provisionings of the same customer and site apart:
\* they may be in progress together, and whenever both have written their
\* Deployment row, the two rows are different rows, both active, and name
\* two different key-value stores, each made by its own attempt.
C24_InterleavedProvisioningsBothComplete ==
  \A p \in Procs, q \in Procs :
    (/\ p # q
     /\ loc[p].op = "deploy" /\ loc[q].op = "deploy"
     /\ loc[p].user = loc[q].user /\ loc[p].site = loc[q].site
     /\ loc[p].dep # NULL /\ loc[q].dep # NULL)
      => /\ loc[p].dep # loc[q].dep
         /\ deployments[loc[p].dep].status = "active"
         /\ deployments[loc[q].dep].status = "active"
         /\ deployments[loc[p].dep].worker_name = deployments[loc[q].dep].worker_name
         /\ deployments[loc[p].dep].kv_namespace_id = loc[p].attempt
         /\ deployments[loc[q].dep].kv_namespace_id = loc[q].attempt
         /\ loc[p].attempt # loc[q].attempt
         /\ {loc[p].attempt, loc[q].attempt} \subseteq kvNamespaces
         /\ (pc[p] = "done" /\ pc[q] = "done")
              => loc[p].result.success /\ loc[q].result.success

\* Two provisionings of one site that ran step by step side by side: both
\* have passed every step and neither has returned yet.
C24_Witness ==
  /\ pc[1] = "d_return"
  /\ pc[2] = "d_return"
  /\ loc[1].user = loc[2].user
  /\ loc[1].site = loc[2].site
  /\ loc[1].zone = loc[2].zone
  /\ Len(deployments) = 2
  /\ Cardinality(kvNamespaces) = 2
  /\ Len(api_keys) = 2

\* The caller owns the deployment a resync or teardown names.
OwnsDeployment(l) ==
  /\ l.dep \in 1..Len(deployments)
  /\ deployments[l.dep].user_id = l.user

\* The caller owns the variant a variant update or delete names.
OwnsVariant(l) ==
  \E v \in variants : v.id = l.variantId /\ v.user_id = l.user

\* C26: a resync, a teardown, a variant update (with a content) or a variant
\* delete whose caller does not own the deployment or variant it names, or
\* that names an id that does not exist, ends at once with a not-found
\* failure: the step changes no Registry row and nothing on the platform,
\* and the request has made no remote call.
C26_NotOwnedIsNotFound ==
  [][\A p \in Procs :
       LET l == loc'[p] IN
       (/\ pc[p] = "idle" /\ pc'[p] # "idle"
        /\ \/ l.op \in {"resync", "teardown"} /\ ~OwnsDeployment(l)
           \/ l.op = "variant update" /\ l.content # NULL /\ ~OwnsVariant(l)
           \/ l.op = "variant delete" /\ ~OwnsVariant(l))
         => /\ pc'[p] = "done"
            /\ ~l.result.success
            /\ l.op \in {"resync", "teardown"}
                 => l.step = "not found" /\ l.result.code = 500
            /\ l.op \in {"variant update", "variant delete"}
                 => l.result.code = 404 /\ l.result.error = "Variant not found"
            /\ l.calls = 0
            /\ UNCHANGED <<registry, remote>>]_vars

\* Each of the four requests has been refused to a caller who is not the
\* owner of an existing deployment or variant; these four states are reached.
C26_WitnessOp(op) ==
  \E p \in Procs :
    /\ pc[p] = "done"
    /\ loc[p].op = op
    /\ ~loc[p].result.success
    /\ IF op \in {"resync", "teardown"}
         THEN /\ loc[p].dep \in 1..Len(deployments)
              /\ deployments[loc[p].dep].user_id # loc[p].user
              /\ deployments[loc[p].dep].status = "active"
         ELSE /\ loc[p].content # NULL \/ op = "variant delete"
              /\ \E v \in variants : v.id = loc[p].variantId /\ v.user_id # loc[p].user

C26_WitnessResync == C26_WitnessOp("resync")
C26_WitnessTeardown == C26_WitnessOp("teardown")
C26_WitnessDelete == C26_WitnessOp("variant delete")

C26_Witness ==
  C26_WitnessOp("variant update")

\* C27: the Connection rows change in a connect request only at its write,
\* and that write belongs to a request for which the platform listed at
\* least one account; a connect refused for its token format, a failed
\* listing or an empty listing ends with every Connection row as it was
\* when the request began.
C27_ConnectionWrittenOnlyAfterVerification ==
  [][\A p \in Procs :
       /\ (/\ pc[p] # "done" /\ pc'[p] = "done" /\ loc'[p].op = "connect"
           /\ loc'[p].count = 0)
            => /\ ~loc'[p].result.success
               /\ loc'[p].result.code \in {400, 401, 500}
               /\ pc[p] = "idle"
               /\ connections' = connections
               /\ connSeq' = connSeq
       /\ (/\ pc[p] # "done" /\ pc'[p] = "done" /\ loc'[p].op = "connect"
           /\ connections' # connections)
            => /\ pc[p] = "c_write"
               /\ loc[p].count >= 1
               /\ loc[p].calls = 2
               /\ loc'[p].result.success
               /\ \A r \in connections' \ connections : r.user_id = loc[p].user
       /\ (connections' # connections)
            => \E q \in Procs :
                 /\ pc'[q] = "done" /\ pc[q] # "done"
                 /\ \/ loc'[q].op = "disconnect"
                    \/ loc'[q].op = "connect" /\ loc[q].count >= 1]_vars

\* A connect refused because the listing came back empty, asked by a caller
\* whose Connection row exists, while the other slot is about to write a row.
C27_Witness ==
  /\ pc[1] = "done"
  /\ loc[1].op = "connect"
  /\ loc[1].count = 0
  /\ loc[1].calls = 2
  /\ loc[1].result.code = 400
  /\ \E r \in connections : r.user_id = loc[1].user
  /\ pc[2] = "c_write"

\* C28: the health probe of a provisioning reports healthy exactly when its
\* request was handled by the worker the provisioning deployed.
C28_HealthyIffHandledByWorker ==
  \A p \in Procs :
    (loc[p].op = "deploy" /\ loc[p].probe # "")
      => (loc[p].step = "PASS" <=> loc[p].probe \in {"origin", "AXP"})

\* The probe's request reached the deployed worker, bound to this attempt's
\* store and on this attempt's route, and the probe reported unhealthy.
C28_HandledAndReportedUnhealthy ==
  \E p \in Procs :
    /\ pc[p] = "done"
    /\ loc[p].op = "deploy"
    /\ loc[p].result.success
    /\ loc[p].probe = "origin"
    /\ loc[p].step = "FAIL"
    /\ workers[loc[p].site].exists
    /\ workers[loc[p].site].kv = loc[p].attempt
    /\ \E r \in routes : r.id = loc[p].route /\ r.script = WorkerName(loc[p].site)

\* The second half of C28: the step of the probe changes no Registry row and
\* no platform object and leads to the return, and the return is the same
\* success whatever the probe reported.
C28_ProbeChangesNothing ==
  [][\A p \in Procs :
       /\ (pc[p] = "d_health" /\ pc'[p] # "d_health")
            => /\ pc'[p] = "d_return"
               /\ loc'[p].probe \in {"unreached", "direct", "origin", "AXP"}
               /\ UNCHANGED <<registry, remote>>
               /\ loc'[p] = [loc[p] EXCEPT !.probe = loc'[p].probe,
                                           !.step = loc'[p].step]
       /\ (pc[p] = "d_return" /\ pc'[p] # "d_return")
            => /\ pc'[p] = "done"
               /\ loc'[p].result = [code |-> 200, success |-> TRUE, error |-> "",
                                    value |-> [deploymentId |-> loc[p].dep,
                                               workerName |-> WorkerName(loc[p].site),
                                               kvNamespaceId |-> loc[p].kv,
                                               variantsUploaded |-> loc[p].count]]
               /\ UNCHANGED <<registry, remote>>]_vars

\* Provisionings that ended with each report of the probe.
C28_ProbePassed ==
  \E p \in Procs : pc[p] = "done" /\ loc[p].op = "deploy" /\ loc[p].probe = "AXP"

C28_ProbeUnreached ==
  \E p \in Procs : pc[p] = "done" /\ loc[p].op = "deploy" /\ loc[p].probe = "unreached"

\* The bytes a key string decodes to.
DecodedKey(keyString) ==
  base64ToArrayBuffer(trim(keyString))

\* `long` decodes to more than 32 bytes and `short` to exactly its first 32.
TruncationOf(long, short) ==
  /\ Len(DecodedKey(long)) > KeyBytes
  /\ DecodedKey(short) = SubSeq(DecodedKey(long), 1, KeyBytes)

\* C29: a key string that decodes to more than 32 bytes is not rejected by
\* encryptToken, and an untouched blob encrypted under it decrypts to the
\* plaintext under the key string of its first 32 bytes; so does a blob
\* encrypted under the 32-byte key when decrypted under the over-long one.
C29_OverlongKeyIsTruncated ==
  /\ Len(DecodedKey(vault.key)) > KeyBytes => vault.stage # "threw"
  /\ (/\ vault.stage = "opened"
      /\ vault.touched = 0
      /\ TruncationOf(vault.key, vault.with) \/ TruncationOf(vault.with, vault.key))
       => /\ vault.opened.ok
          /\ vault.opened.value = vault.plaintext

\* A blob encrypted under a 34-byte key, decrypted under its first 32 bytes.
C29_Witness ==
  /\ vault.stage = "opened"
  /\ vault.touched = 0
  /\ TruncationOf(vault.key, vault.with)
  /\ Len(DecodedKey(vault.with)) = KeyBytes
  /\ vault.opened.ok
  /\ vault.opened.value = vault.plaintext

\* The other way round: encrypted under the 32 bytes, decrypted under the
\* 34-byte key.
C29_WitnessReverse ==
  /\ vault.stage = "opened"
  /\ vault.touched = 0
  /\ TruncationOf(vault.with, vault.key)
  /\ vault.opened.ok
  /\ vault.opened.value = vault.plaintext

\* C30: the worker's response to a bot request is fixed when fetch returns,
\* while the analytics callback it handed to waitUntil is still pending and
\* nothing has been posted; the callback, whether its POST succeeds or
\* fails, leaves the response and the request as they were, so the response
\* after a failed callback is the one after a successful callback.
C30_CallbackNeverAffectsResponse ==
  [][/\ (edge.stage = "idle" /\ edge'.stage = "responded")
          => /\ edge'.response.by \in {"AXP", "origin"}
             /\ edge'.posted = <<>>
             /\ isAIBot(edge'.request.userAgent)
                  => /\ Len(edge'.waiting) = 1
                     /\ edge'.waiting[1].variantServed = (edge'.response.by = "AXP")
             /\ ~isAIBot(edge'.request.userAgent) => edge'.waiting = <<>>
     /\ (edge.stage = "responded" /\ edge'.stage = "responded")
          => /\ edge'.response = edge.response
             /\ edge'.request = edge.request
             /\ edge'.store = edge.store
             /\ Len(edge'.waiting) = Len(edge.waiting) - 1]_vars

\* A variant was answered to a bot and the callback has since failed: the
\* response is the variant, nothing was posted.
C30_Witness ==
  /\ edge.stage = "responded"
  /\ isAIBot(edge.request.userAgent)
  /\ edge.reads = 1
  /\ edge.waiting = <<>>
  /\ edge.posted = <<>>
  /\ edge.response.by = "AXP"
  /\ edge.response.body # ""

\* An origin response to a bot, its callback failed.
C30_WitnessOrigin ==
  /\ edge.stage = "responded"
  /\ isAIBot(edge.request.userAgent)
  /\ edge.waiting = <<>>
  /\ edge.posted = <<>>
  /\ edge.response.by = "origin"

\* C31: a provisioning that has answered success = false has left no active
\* Deployment row of its own behind, also when it failed at the INSERT INTO
\* api_keys that follows the INSERT INTO deployments.
C31_FailedProvisioningLeavesNoActiveRow ==
  \A p \in Procs :
    (pc[p] = "done" /\ loc[p].op = "deploy" /\ ~loc[p].result.success)
      => \A d \in 1..Len(deployments) :
           deployments[d].attempt = loc[p].attempt
             => deployments[d].status # "active"

\* A provisioning answered as failed at the Secret row insert, its Deployment
\* row active and without any Secret row, its worker, store and route in place.
C31_FailedAfterInsert ==
  \E p \in Procs :
    /\ pc[p] = "done"
    /\ loc[p].op = "deploy"
    /\ ~loc[p].result.success
    /\ loc[p].step = "key"
    /\ loc[p].dep \in 1..Len(deployments)
    /\ deployments[loc[p].dep].status = "active"
    /\ deployments[loc[p].dep].attempt = loc[p].attempt
    /\ KeysOf(loc[p].dep) = {}
    /\ loc[p].attempt \in kvNamespaces

\* The worker a Deployment row names exists and is bound to the row's store.
WorkerServesRow(d) ==
  \E s \in Sites :
    /\ WorkerName(s) = deployments[d].worker_name
    /\ workers[s].exists
    /\ workers[s].kv = deployments[d].kv_namespace_id

\* C32: whenever no call is in progress, after any sequence of provision and
\* teardown calls, the worker named by each active Deployment row exists on
\* the platform and its VARIANTS binding is the store recorded in that row.
C32_ActiveRowHasWorkerBoundToItsStore ==
  (\A p \in Procs : pc[p] \in {"idle", "done"})
    => \A d \in 1..Len(deployments) :
         deployments[d].status = "active" => WorkerServesRow(d)

\* Two provisionings of one site went through one after the other: the first
\* row is still active and names the first store, the worker is bound to the
\* second.
C32_EarlierRowLostItsWorker ==
  /\ \A p \in Procs : pc[p] \in {"idle", "done"}
  /\ Len(deployments) = 2
  /\ deployments[1].status = "active"
  /\ deployments[2].status = "active"
  /\ deployments[1].worker_name = deployments[2].worker_name
  /\ deployments[1].kv_namespace_id # deployments[2].kv_namespace_id
  /\ ~WorkerServesRow(1)
  /\ WorkerServesRow(2)

\* The second deployment was torn down and took the worker with it: the first
\* row is active and its worker does not exist.
C32_TeardownRemovedSharedWorker ==
  /\ \A p \in Procs : pc[p] \in {"idle", "done"}
  /\ Len(deployments) = 2
  /\ deployments[1].status = "active"
  /\ deployments[2].status = "deleted"
  /\ \A s \in Sites : WorkerName(s) = deployments[1].worker_name => ~workers[s].exists

\* The active Deployment rows other than row d.
OtherActiveRows(d) ==
  {o \in 1..Len(deployments) : o # d /\ deployments[o].status = "active"}

\* C33: a teardown issues its route deletion, its worker deletion and its
\* store deletion only for a route, a worker and a store that no other
\* active Deployment row refers to.
C33_TeardownDeletesNothingShared ==
  [][\A p \in Procs :
       LET others == OtherActiveRows(loc[p].dep) IN
       /\ (pc[p] = "t_route" /\ pc'[p] = "t_worker" /\ loc'[p].calls > loc[p].calls)
            => \A o \in others : deployments[o].route_id # loc[p].route
       /\ (pc[p] = "t_worker" /\ pc'[p] = "t_kv")
            => \A o \in others : deployments[o].worker_name # loc[p].site
       /\ (pc[p] = "t_kv" /\ pc'[p] = "t_mark")
            => \A o \in others : deployments[o].kv_namespace_id # loc[p].kv]_vars

\* A teardown has deleted the worker that another active row names.
C33_SharedWorkerDeleted ==
  \E p \in Procs :
    /\ pc[p] = "t_kv"
    /\ loc[p].op = "teardown"
    /\ \E o \in OtherActiveRows(loc[p].dep) :
         /\ deployments[o].worker_name = loc[p].site
         /\ \A s \in Sites : WorkerName(s) = loc[p].site => ~workers[s].exists

\* The same without the worker: routes and stores are never shared.
C33_RouteAndStoreAreOwn ==
  [][\A p \in Procs :
       LET others == OtherActiveRows(loc[p].dep) IN
       /\ (pc[p] = "t_route" /\ pc'[p] = "t_worker" /\ loc'[p].calls > loc[p].calls)
            => \A o \in others : deployments[o].route_id # loc[p].route
       /\ (pc[p] = "t_kv" /\ pc'[p] = "t_mark")
            => \A o \in others : deployments[o].kv_namespace_id # loc[p].kv]_vars

\* The store recorded in the Deployment row a variant belongs to.
StoreOfVariant(v) ==
  deployments[v.deployment_id].kv_namespace_id

\* C34: every put a provisioning sync or a resync issues writes the path and
\* content of a Variant row of the deployment whose store it writes to (the
\* deployment being provisioned or resynced), and every put of a
\* variant create or update goes to the store of the deployment named in the
\* Variant row it wrote.
C34_StoreReceivesOwnVariantsOnly ==
  [][\A p \in Procs :
       /\ (pc[p] \in {"d_put", "u_put"} /\ loc'[p].calls > loc[p].calls)
            => \E v \in variants :
                 /\ v.deployment_id = loc[p].dep
                 /\ v.url_path = Head(loc[p].todo).url_path
                 /\ v.content = Head(loc[p].todo).content
                 /\ StoreOfVariant(v) = loc[p].kv
       /\ (pc[p] \in {"v_put", "w_put"} /\ loc'[p].calls > loc[p].calls)
            => \E v \in variants :
                 /\ v.id = loc[p].variantId
                 /\ v.url_path = loc[p].path
                 /\ StoreOfVariant(v) = loc[p].kv]_vars

\* A second provisioning has put into its new store the content of a variant
\* that belongs to the first deployment, whose store is another one.
C34_ForeignVariantInNewStore ==
  \E p \in Procs, v \in variants :
    /\ loc[p].op = "deploy"
    /\ pc[p] = "d_insert"
    /\ loc[p].count >= 1
    /\ v.user_id = loc[p].user
    /\ StoreOfVariant(v) # loc[p].kv
    /\ loc[p].kv \in kvNamespaces
    /\ kvData[loc[p].kv][v.url_path] = v.content
    /\ Len(deployments) = 1

\* The same for resync and the variant operations alone.
C34_ResyncAndVariantWritesAreOwn ==
  [][\A p \in Procs :
       /\ (pc[p] = "u_put" /\ loc'[p].calls > loc[p].calls)
            => \E v \in variants :
                 /\ v.deployment_id = loc[p].dep
                 /\ v.url_path = Head(loc[p].todo).url_path
                 /\ v.content = Head(loc[p].todo).content
                 /\ StoreOfVariant(v) = loc[p].kv
       /\ (pc[p] \in {"v_put", "w_put"} /\ loc'[p].calls > loc[p].calls)
            => \E v \in variants :
                 /\ v.id = loc[p].variantId
                 /\ v.url_path = loc[p].path
                 /\ StoreOfVariant(v) = loc[p].kv]_vars

\* ------------------------------------------- variant writes, two requests at once
\* The Registry and the account after customer 1 has connected with token 1
\* and provisioned site 1 on zone 1 once, every call having succeeded.
Provisioned ==
  /\ users = {[id |-> 1, email |-> "test@example.com"]}
  /\ connections = {[id |-> 1, user_id |-> 1, account_id |-> AccountOf(1),
                     token_encrypted |-> encryptToken(TokenText(1), ENCRYPTION_KEY, 1),
                     status |-> "active"]}
  /\ connSeq = 1
  /\ deployments = <<[user_id |-> 1, zone_id |-> 1, worker_name |-> WorkerName(1),
                      kv_namespace_id |-> 1, route_id |-> 1, status |-> "active",
                      attempt |-> 1]>>
  /\ api_keys = <<[user_id |-> 1, key_hash |-> hashApiKey(1), deployment_id |-> 1,
                   status |-> "active", attempt |-> 1]>>
  /\ variants = {}
  /\ variantSeq = 0
  /\ ai_requests = <<>>
  /\ kvNamespaces = {1}
  /\ kvData = [k \in 1..MaxAttempts |-> [q \in Paths |-> NULL]]
  /\ workers = [s \in Sites |-> [exists |-> TRUE, kv |-> 1, CLIENT_API_KEY |-> 1]]
  /\ routes = {[id |-> 1, zone |-> 1, script |-> WorkerName(1)]}
  /\ attempts = 1
  /\ writes = 0
  /\ pc = [p \in Procs |-> "idle"]
  /\ loc = [p \in Procs |-> Idle]

InitWriters ==
  /\ Provisioned
  /\ limiter = NoLimiter
  /\ vault = NoVault
  /\ edge = NoEdge

NextWriters ==
  \E p \in Procs :
    \/ Return(p)
    \/ VariantCreateBegin(p)
    \/ VariantCreateLookup(p)
    \/ VariantCreateWrite(p)
    \/ VariantCreatePut(p)
    \/ VariantUpdateBegin(p)
    \/ VariantUpdateWrite(p)
    \/ VariantUpdatePut(p)

\* Variant create and update requests on the provisioned deployment, two in
\* flight at once in every interleaving.
SpecWriters == InitWriters /\ [][NextWriters]_vars

\* Two requests, each a variant create or update, both answered as successes,
\* that wrote the same path of the same deployment.
BothWritersDone(p, q) ==
  /\ p # q
  /\ pc[p] = "done" /\ pc[q] = "done"
  /\ loc[p].op \in {"variant", "variant update"}
  /\ loc[q].op \in {"variant", "variant update"}
  /\ loc[p].result.success /\ loc[q].result.success
  /\ loc[p].dep = loc[q].dep
  /\ loc[p].path = loc[q].path

\* C35: once concurrent variant create and update requests for one
\* (deployment, url_path) have all completed, every remote put having
\* succeeded, the entry of the deployment's store under that path is the
\* content of the Variant row.
C35_StoreAgreesWithRowAfterConcurrentWrites ==
  \A p \in Procs, q \in Procs :
    BothWritersDone(p, q)
      => \A v \in variants :
           (v.deployment_id = loc[p].dep /\ v.url_path = loc[p].path)
             => kvData[StoreOfVariant(v)][v.url_path] = v.content

\* Both requests succeeded, one Variant row exists for the path, and the
\* store holds under the path the content of the request that wrote the row
\* first, not the content of the row.
C35_StoreHoldsOlderContent ==
  \E p \in Procs, q \in Procs, v \in variants :
    /\ BothWritersDone(p, q)
    /\ loc[p].content # loc[q].content
    /\ v.deployment_id = loc[p].dep /\ v.url_path = loc[p].path
    /\ v.content = loc[q].content
    /\ kvData[StoreOfVariant(v)][v.url_path] = loc[p].content
    /\ Cardinality(VariantsAt(loc[p].dep, loc[p].path)) = 1

\* C36: a variant create or update that has answered a failure has left the
\* Variant rows as they were when it began: no new row for its path, and the
\* row it found still with the content it had.
C36_FailedWriteLeavesRowsUnchanged ==
  \A p \in Procs :
    (pc[p] = "done" /\ ~loc[p].result.success)
      => /\ loc[p].op = "variant"
              => IF loc[p].before = NULL
                   THEN VariantsAt(loc[p].dep, loc[p].path) = {}
                   ELSE \A v \in VariantsAt(loc[p].dep, loc[p].path) :
                          v.id = loc[p].before /\ v.content = loc[p].old
         /\ (loc[p].op = "variant update" /\ loc[p].step # "")
              => \A v \in variants : v.id = loc[p].variantId => v.content = loc[p].old

\* A create answered 500 for its failed put, its new row in the table.
C36_FailedCreateLeftRow ==
  \E p \in Procs :
    /\ pc[p] = "done"
    /\ loc[p].op = "variant"
    /\ loc[p].result.code = 500
    /\ loc[p].step = "put"
    /\ loc[p].before = NULL
    /\ \E v \in variants : v.id = loc[p].variantId /\ v.content = loc[p].content
    /\ kvData[loc[p].kv][loc[p].path] = NULL

\* An update answered 500 for its failed put, the row holding the new content
\* and the store the old one.
C36_FailedUpdateChangedRow ==
  \E p \in Procs :
    /\ pc[p] = "done"
    /\ loc[p].op = "variant update"
    /\ loc[p].result.code = 500
    /\ loc[p].step = "put"
    /\ loc[p].content # loc[p].old
    /\ \E v \in variants : v.id = loc[p].variantId /\ v.content = loc[p].content
    /\ kvData[loc[p].kv][loc[p].path] = loc[p].old

\* The customer has a Connection row and none of status active: a disconnect
\* has completed and no connect has succeeded since.
Disconnected(userId) ==
  /\ ConnectionLookup(userId) # {}
  /\ ActiveConnections(userId) = {}

\* C37: while a customer is disconnected, no provisioning, resync, teardown
\* or variant request of theirs decrypts the stored credential or issues a
\* remote call with it.
C37_NoCredentialUseWhileDisconnected ==
  [][\A p \in Procs :
       (/\ loc'[p].op \in {"deploy", "resync", "teardown", "variant"}
        /\ Disconnected(loc'[p].user))
         => /\ loc'[p].calls = loc[p].calls
            /\ pc[p] = "idle" => pc'[p] = "done"]_vars

\* A teardown of a disconnected customer has decrypted the credential and
\* deleted the worker and the store with it.
C37_TeardownAfterDisconnect ==
  \E p \in Procs :
    /\ loc[p].op = "teardown"
    /\ pc[p] = "done"
    /\ Disconnected(loc[p].user)
    /\ loc[p].calls >= 2
    /\ loc[p].result.success
    /\ ~(loc[p].kv \in kvNamespaces)

\* A resync of a disconnected customer has put a variant into the store.
C37_ResyncAfterDisconnect ==
  \E p \in Procs :
    /\ loc[p].op = "resync"
    /\ pc[p] = "done"
    /\ Disconnected(loc[p].user)
    /\ loc[p].count >= 1

\* A variant create of a disconnected customer has put its content.
C37_VariantAfterDisconnect ==
  \E p \in Procs :
    /\ loc[p].op = "variant"
    /\ pc[p] = "done"
    /\ Disconnected(loc[p].user)
    /\ loc[p].calls = 1
    /\ loc[p].result.success

\* Provisioning alone: it asks for an active connection first.
C37_ProvisioningRefusesDisconnected ==
  [][\A p \in Procs :
       (loc'[p].op = "deploy" /\ Disconnected(loc'[p].user))
         => /\ loc'[p].calls = loc[p].calls
            /\ pc[p] = "idle" => pc'[p] = "done"]_vars

\* The request targets a Deployment row of the caller whose status is deleted:
\* the row named by a resync or a variant create, or the row of the variant
\* named by a variant update.
TargetsDeletedRow(l) ==
  \/ /\ l.op \in {"resync", "variant"}
     /\ OwnsDeployment(l)
     /\ deployments[l.dep].status = "deleted"
  \/ /\ l.op = "variant update"
     /\ l.content # NULL
     /\ \E v \in variants :
          /\ v.id = l.variantId /\ v.user_id = l.user
          /\ v.deployment_id \in 1..Len(deployments)
          /\ deployments[v.deployment_id].status = "deleted"

\* C38: a resync, variant create or variant update that targets a deleted
\* Deployment row is refused in its first step with not-found: it changes no
\* Variant row and issues no remote write.
C38_DeletedDeploymentRefusesWrites ==
  [][\A p \in Procs :
       (pc[p] = "idle" /\ pc'[p] # "idle" /\ TargetsDeletedRow(loc'[p]))
         => /\ pc'[p] = "done"
            /\ ~loc'[p].result.success
            /\ loc'[p].op = "resync" => loc'[p].step = "not found"
            /\ loc'[p].op \in {"variant", "variant update"} => loc'[p].result.code = 404
            /\ loc'[p].calls = 0
            /\ UNCHANGED <<variants, kvData>>]_vars

\* An update of a variant whose deployment was torn down has changed the row
\* and issued its put to the deleted store.
C38_UpdateAfterTeardown ==
  \E p \in Procs :
    /\ pc[p] = "done"
    /\ loc[p].op = "variant update"
    /\ loc[p].dep \in 1..Len(deployments)
    /\ deployments[loc[p].dep].status = "deleted"
    /\ loc[p].calls = 1
    /\ loc[p].content # loc[p].old
    /\ \E v \in variants : v.id = loc[p].variantId /\ v.content = loc[p].content

\* The same for resync and variant create alone.
C38_ResyncAndCreateRefused ==
  [][\A p \in Procs :
       (/\ pc[p] = "idle" /\ pc'[p] # "idle" /\ TargetsDeletedRow(loc'[p])
        /\ loc'[p].op \in {"resync", "variant"})
         => /\ pc'[p] = "done"
            /\ ~loc'[p].result.success
            /\ loc'[p].op = "resync" => loc'[p].step = "not found"
            /\ loc'[p].op = "variant" => loc'[p].result.code = 404
            /\ loc'[p].calls = 0
            /\ UNCHANGED <<variants, kvData>>]_vars

\* ------------------------------------- the keys of the variant store, as text

\* The pages a variant holds.
Pages == {"<html>", "<p>"}

\* The url_path of the variants written: /a and /a%20b.
StorePaths ==
  {<<"/", "a">>, <<"/", "a", "%", "2", "0", "b">>}

\* What %XX escapes stand for, over the characters of the paths used.
RECURSIVE percentDecoded(_)
percentDecoded(text) ==
  IF text = <<>> THEN <<>>
  ELSE IF Len(text) >= 3 /\ SubSeq(text, 1, 3) = <<"%", "2", "F">>
    THEN <<"/">> \o percentDecoded(SubSeq(text, 4, Len(text)))
  ELSE IF Len(text) >= 3 /\ SubSeq(text, 1, 3) = <<"%", "2", "5">>
    THEN <<"%">> \o percentDecoded(SubSeq(text, 4, Len(text)))
  ELSE IF Len(text) >= 3 /\ SubSeq(text, 1, 3) = <<"%", "2", "0">>
    THEN <<" ">> \o percentDecoded(SubSeq(text, 4, Len(text)))
  ELSE <<text[1]>> \o percentDecoded(Tail(text))

\* The key the platform files a value under for the request URL
\* .../values/${key}: the text after values/, read as it is or with its
\* escapes decoded.  Which of the two the platform does is not in the source;
\* it does the same at every call.
valuesKey(key, decodes) == IF decodes THEN percentDecoded(key) ELSE key

\* putKVValue(accountId, namespaceId, key, value) on the worker's namespace.
putKVValue(store, key, value, decodes) ==
  {e \in store : e[1] # valuesKey(key, decodes)}
    \cup {<<valuesKey(key, decodes), value>>}

\* deleteKVValue(accountId, namespaceId, key) on the worker's namespace.
deleteKVValue(store, key, decodes) ==
  {e \in store : e[1] # valuesKey(key, decodes)}

\* The key the worker reads for a request path.
workerKey(path) == encodeURIComponent(path)

\* The key the routes of the earlier version pass: encodeURIComponent(urlPath).
kvKey(urlPath) == encodeURIComponent(urlPath)

\* The key the present routes and uploadExistingVariants pass: urlPath itself.
urlPathKey(urlPath) == urlPath

\* The key a variant route passes, by its version.
routeKey(urlPath, earlier) == IF earlier THEN kvKey(urlPath) ELSE urlPathKey(urlPath)

\* The Variant row of a path written: key is the key of the put that
\* followed, <<>> when that put failed.
RowWritten(rows, urlPath, content, key) ==
  {r \in rows : r.url_path # urlPath}
    \cup {[url_path |-> urlPath, content |-> content, key |-> key]}

\* POST /api/variants from its row write on: the row is inserted or updated,
\* then the content is put under the route's key.
VariantCreateStore ==
  /\ edge.stage = "idle"
  /\ \E urlPath \in StorePaths, content \in Pages, ok \in BOOLEAN :
       edge' = [edge EXCEPT
         !.rows = RowWritten(@, urlPath, content, IF ok THEN routeKey(urlPath, edge.earlier) ELSE <<>>),
         !.store = IF ok THEN putKVValue(@, routeKey(urlPath, edge.earlier), content, edge.decodes)
                   ELSE @]
  /\ UNCHANGED <<registry, remote, counters, pc, loc, limiter, vault>>

\* PUT /api/variants/:id from its row write on, for a row there is.
VariantUpdateStore ==
  /\ edge.stage = "idle"
  /\ \E r \in edge.rows, content \in Pages, ok \in BOOLEAN :
       edge' = [edge EXCEPT
         !.rows = RowWritten(@, r.url_path, content,
                             IF ok THEN routeKey(r.url_path, edge.earlier) ELSE <<>>),
         !.store = IF ok THEN putKVValue(@, routeKey(r.url_path, edge.earlier), content, edge.decodes)
                   ELSE @]
  /\ UNCHANGED <<registry, remote, counters, pc, loc, limiter, vault>>

\* DELETE /api/variants/:id from its row delete on: the row goes, the value
\* under the route's key goes when the call succeeds.
VariantDeleteStore ==
  /\ edge.stage = "idle"
  /\ \E r \in edge.rows, ok \in BOOLEAN :
       edge' = [edge EXCEPT
         !.rows = @ \ {r},
         !.store = IF ok THEN deleteKVValue(@, routeKey(r.url_path, edge.earlier), edge.decodes) ELSE @]
  /\ UNCHANGED <<registry, remote, counters, pc, loc, limiter, vault>>

\* The puts of uploadExistingVariants over rows, one row after the other;
\* oks says which of them succeed.
RECURSIVE UploadRows(_, _, _, _)
UploadRows(store, rows, oks, decodes) ==
  IF rows = {} THEN store
  ELSE LET r == CHOOSE o \in rows : TRUE
       IN UploadRows(IF oks[r.url_path]
                       THEN putKVValue(store, urlPathKey(r.url_path), r.content, decodes)
                       ELSE store,
                     rows \ {r}, oks, decodes)

\* uploadExistingVariants, the sync of provisioning and of the resync: every
\* row is put under its url_path; a put that fails is logged and passed over.
StoreUpload ==
  /\ edge.stage = "idle"
  /\ edge.rows # {}
  /\ \E oks \in [StorePaths -> BOOLEAN] :
       edge' = [edge EXCEPT
         !.rows = {[r EXCEPT !.key = IF oks[r.url_path] THEN urlPathKey(r.url_path)
                                     ELSE @] : r \in @},
         !.store = UploadRows(@, edge.rows, oks, edge.decodes)]
  /\ UNCHANGED <<registry, remote, counters, pc, loc, limiter, vault>>

InitStore ==
  /\ Fresh
  /\ limiter = NoLimiter
  /\ vault = NoVault
  /\ \E decodes \in BOOLEAN, earlier \in BOOLEAN :
       edge = [NoEdge EXCEPT !.stage = "idle", !.decodes = decodes,
                             !.earlier = earlier]

NextStore ==
  \/ VariantCreateStore
  \/ VariantUpdateStore
  \/ VariantDeleteStore
  \/ StoreUpload
  \/ EdgeFetch
  \/ EdgeLogAnalytics
  \/ EdgeReturn

\* The writers of one deployment's store and its worker, one call at a time.
SpecStore == InitStore /\ [][NextStore]_vars

\* C39: a variant whose last put succeeded is held by the store under the key
\* the worker reads for a request whose path is the variant's url_path, and
\* the key that put passed is that key, whichever writer made it (sync,
\* resync, create or update).
C39_WritersUseTheKeyTheWorkerReads ==
  \A r \in edge.rows :
    r.key # <<>> =>
      /\ r.key = workerKey(r.url_path)
      /\ VariantsGet(edge.store, workerKey(r.url_path))
           = [null |-> FALSE, text |-> r.content]

\* C39: a variant was put under its url_path, the store holds it under that
\* text, and the worker's key for the path finds nothing.
C39_PutUnderPathNotFoundByWorker ==
  \E r \in edge.rows :
    /\ ~edge.earlier
    /\ r.key = urlPathKey(r.url_path)
    /\ VariantsGet(edge.store, r.url_path) = [null |-> FALSE, text |-> r.content]
    /\ VariantsGet(edge.store, workerKey(r.url_path)).null

\* C39: an AI crawler asked for the path of a variant that a writer of the
\* present version has put, and was answered by the origin.
C39_CrawlerGetsOriginForPutVariant ==
  /\ edge.stage = "responded"
  /\ isAIBot(edge.request.userAgent)
  /\ edge.response.by = "origin"
  /\ ~edge.earlier
  /\ \E r \in edge.rows :
       r.url_path = edge.request.path /\ r.key = urlPathKey(r.url_path)

\* C39: two variants of one store were put under keys of different forms:
\* one by a route of the earlier version, one by uploadExistingVariants.
C39_WritersDisagree ==
  \E r \in edge.rows, o \in edge.rows :
    /\ r.key = kvKey(r.url_path)
    /\ o.key = urlPathKey(o.url_path)

\* C39: the put of the earlier version's route is found by the worker's key
\* when the platform files the key text as it is.
C39_EarlierKeyFoundByWorker ==
  \E r \in edge.rows :
    /\ r.key = kvKey(r.url_path)
    /\ VariantsGet(edge.store, workerKey(r.url_path))
         = [null |-> FALSE, text |-> r.content]

\* C39: with the routes of the present version no variant put is found under
\* the worker's key, whatever the platform does with the key text.
C39_PresentWritersNeverFound ==
  ~edge.earlier =>
    \A path \in EdgePaths : VariantsGet(edge.store, workerKey(path)).null

\* C39: the put under the url_path is missed by the worker on a platform that
\* decodes the key text as well.
C39_MissedOnDecodingPlatform ==
  /\ edge.decodes
  /\ C39_PutUnderPathNotFoundByWorker

\* ------------------------------------ standardRateLimit, two requests at once
\* maxRequests of standardRateLimit.
standardMaxRequests == 100

\* No request of the slot in the middleware.
NoCall == [stage |-> "idle", at |-> 0, requests |-> <<>>, answer |-> NULL]

\* The middleware of one request up to its first await after the get:
\* KV_SESSIONS.get, the filter, the limit check, requests.push(now).  A get
\* that throws lets the request through.  raced records that the list was
\* read while another request held a list it had read and not yet put.
StandardLimitBegin(p, userId) ==
  /\ limiter.calls[p].stage = "idle"
  /\ limiter.seen < MaxStandardCalls
  /\ \E ok \in BOOLEAN :
       LET m == [limiter EXCEPT !.seen = @ + 1, !.calls[p].at = limiter.now]
           requests == FilterWindow(limiter.kv[userId], limiter.now - windowMs)
       IN IF ~ok
            THEN limiter' = [m EXCEPT !.calls[p].stage = "next", !.errors = @ + 1]
          ELSE IF Len(requests) >= standardMaxRequests
            THEN limiter' = [m EXCEPT !.calls[p].stage = "answered",
                                      !.calls[p].answer = 429]
          ELSE limiter' = [m EXCEPT
                 !.calls[p].stage = "put",
                 !.calls[p].requests = Append(requests, limiter.now),
                 !.raced = @ \/ \E q \in Procs \ {p} : limiter.calls[q].stage = "put"]
  /\ UNCHANGED <<registry, remote, counters, pc, loc, vault, edge>>

\* KV_SESSIONS.put(key, JSON.stringify(requests), ...): the list this request
\* read and extended replaces the stored one; a put that throws lets the
\* request through.
StandardLimitStore(p, userId) ==
  /\ limiter.calls[p].stage = "put"
  /\ \E ok \in BOOLEAN :
       limiter' = IF ok
         THEN [limiter EXCEPT !.calls[p].stage = "next",
                              !.kv[userId] = limiter.calls[p].requests]
         ELSE [limiter EXCEPT !.calls[p].stage = "next", !.errors = @ + 1]
  /\ UNCHANGED <<registry, remote, counters, pc, loc, vault, edge>>

\* await next(): the request reaches its handler.
StandardLimitNext(p, userId) ==
  /\ limiter.calls[p].stage = "next"
  /\ limiter' = [limiter EXCEPT
       !.calls[p].stage = "answered",
       !.calls[p].answer = 200,
       !.admitted = Append(@, [user |-> userId, at |-> limiter.calls[p].at])]
  /\ UNCHANGED <<registry, remote, counters, pc, loc, vault, edge>>

\* The response is sent.
StandardLimitReturn(p) ==
  /\ limiter.calls[p].stage = "answered"
  /\ limiter' = [limiter EXCEPT !.calls[p] = NoCall]
  /\ UNCHANGED <<registry, remote, counters, pc, loc, vault, edge>>

\* The stored window of a user after held requests of the first half hour
\* were let through one after the other.
Held(userId, held) ==
  [NoLimiter EXCEPT
     !.kv[userId] = [i \in 1..held |-> 0],
     !.admitted = [i \in 1..held |-> [user |-> userId, at |-> 0]]]

\* One user's window: empty, or two requests short of the limit.
InitStandard ==
  /\ Fresh
  /\ vault = NoVault
  /\ edge = NoEdge
  /\ \E held \in {0, standardMaxRequests - 2} : limiter = Held(1, held)

NextStandard ==
  \/ ClockTick
  \/ \E p \in Procs :
       \/ StandardLimitBegin(p, 1)
       \/ StandardLimitStore(p, 1)
       \/ StandardLimitNext(p, 1)
       \/ StandardLimitReturn(p)

\* Requests of one user to one path behind standardRateLimit, two at a time.
SpecStandard == InitStandard /\ [][NextStandard]_vars

\* The requests let through that fall in the window that starts at each of
\* them are at most limit.
AdmittedWithin(limit) ==
  \A e \in 1..Len(limiter.admitted) :
    Cardinality({i \in 1..Len(limiter.admitted) :
                   /\ limiter.admitted[i].user = limiter.admitted[e].user
                   /\ limiter.admitted[i].at >= limiter.admitted[e].at
                   /\ limiter.admitted[i].at < limiter.admitted[e].at + windowMs})
      <= limit

\* C40: with KV_SESSIONS answering every call, however the requests of one
\* user to one path interleave, at most maxRequests of them reach the handler
\* within any window of windowMs.
C40_AdmittedNeverExceedMaxRequests ==
  limiter.errors = 0 => AdmittedWithin(standardMaxRequests)

\* C40: 101 requests of one window were let through with no KV error.
C40_OneMoreThanMaxAdmitted ==
  /\ limiter.errors = 0
  /\ limiter.raced
  /\ ~AdmittedWithin(standardMaxRequests)

\* C40: two requests were let through and the stored window holds fewer
\* entries than were let through within it.
C40_StoredWindowLostARequest ==
  /\ limiter.errors = 0
  /\ limiter.now = 0
  /\ \A p \in Procs : limiter.calls[p].stage = "idle"
  /\ Len(limiter.kv[1]) < Len(limiter.admitted)

\* C40: as long as no request reads the list while another holds a list it
\* has read and not yet put, the limit holds.
C40_OneAtATimeHolds ==
  (limiter.errors = 0 /\ ~limiter.raced) => AdmittedWithin(standardMaxRequests)

\* C40: a request answered 429 leaves the stored window as it was and is not
\* let through.
C40_RejectedIsNotRecorded ==
  [][\A p \in Procs :
       (limiter.calls[p].stage = "idle" /\ limiter'.calls[p].answer = 429)
         => /\ limiter'.kv = limiter.kv
            /\ limiter'.admitted = limiter.admitted
            /\ limiter'.calls[p].stage = "answered"]_vars

\* C40: a request was answered 429.
C40_Rejected ==
  \E p \in Procs : limiter.calls[p].answer = 429 /\ limiter.errors = 0
====
